---- MODULE Spec2Model ----
(***************************************************************************)
(* The Go rules engine of src/services/goGame.ts (createInitialState,      *)
(* getNeighbors, getGroupLiberties, playMove) and a caller that holds the  *)
(* current GameState and the snapshots of earlier states, as App.tsx does. *)
(*                                                                         *)
(* A board is a function y -> (x -> colour), read board[y][x] as in the    *)
(* source.  JavaScript arrays are objects: the working board of playMove   *)
(* carries, for every row, whether the row is a fresh object or the very   *)
(* row object of the input state, so that a write through a shared row is  *)
(* seen in the input state and in every snapshot that holds that row.      *)
(***************************************************************************)
EXTENDS Integers, Sequences, FiniteSets

\* ------------------------------------------------------------------ bounds
BoardN == 3

MaxMoves == 4

MaxStones == 5

MaxKoCalls == 2

\* the stones of a position given to getRandomValidMove
MaxFinderStones == 2

\* the accepted player moves, each followed by an AI turn, of one behaviour
MaxTurns == 1

\* the characters of a coordinate string in a reply of the service
MaxText == 3

\* --------------------------------------------------------------- types.ts
Black == "B"

White == "W"

Empty == "."

Coordinate(x, y) == [x |-> x, y |-> y]

\* `${x},${y}`: the key of a coordinate in the Set<string> of the source
Key(c) == <<c.x, c.y>>

Range(s) == {s[i] : i \in 1..Len(s)}

\* board.length
Size(board) == Cardinality(DOMAIN board)

\* ------------------------------------------------------------- goGame.ts
\* White given the first move
createInitialStateWhiteFirst(size) ==
  [board |-> [y \in 0..(size - 1) |-> [x \in 0..(size - 1) |-> Empty]],
   boardSize |-> size,
   currentPlayer |-> White,
   moveHistory |-> <<>>,
   capturedBlack |-> 0,
   capturedWhite |-> 0,
   lastMove |-> <<>>,
   isGameOver |-> FALSE]

createInitialState(size) ==
  [board |-> [y \in 0..(size - 1) |-> [x \in 0..(size - 1) |-> Empty]],
   boardSize |-> size,
   currentPlayer |-> Black,
   moveHistory |-> <<>>,
   capturedBlack |-> 0,
   capturedWhite |-> 0,
   lastMove |-> <<>>,
   isGameOver |-> FALSE]

isValidBound(c, size) == c.x >= 0 /\ c.x < size /\ c.y >= 0 /\ c.y < size

\* the direction [-1, 0] left out
dirsThree == <<<<0, 1>>, <<0, -1>>, <<1, 0>>>>

dirs == <<<<0, 1>>, <<0, -1>>, <<1, 0>>, <<-1, 0>>>>

getNeighbors(c, size) ==
  LET moved == [i \in 1..Len(dirs) |-> Coordinate(c.x + dirs[i][1], c.y + dirs[i][2])]
      inside(n) == isValidBound(n, size)
  IN SelectSeq(moved, inside)

\* the for-loop over the neighbours of one dequeued stone (lines 48-60):
\* a same-coloured neighbour not yet visited is marked and enqueued
RECURSIVE visitNeighbors(_, _, _, _, _, _)
visitNeighbors(board, color, ns, i, queue, visited) ==
  IF i > Len(ns) THEN [queue |-> queue, visited |-> visited]
  ELSE LET n == ns[i]
           cell == board[n.y][n.x]
       IN IF cell # Empty /\ cell = color /\ Key(n) \notin visited
          THEN visitNeighbors(board, color, ns, i + 1, Append(queue, n), visited \cup {Key(n)})
          ELSE visitNeighbors(board, color, ns, i + 1, queue, visited)

\* the while-loop over the queue (lines 43-61); the result is `group`
RECURSIVE collectGroup(_, _, _, _, _)
collectGroup(board, color, queue, visited, group) ==
  IF Len(queue) = 0 THEN group
  ELSE LET current == Head(queue)
           r == visitNeighbors(board, color, getNeighbors(current, Size(board)), 1,
                               Tail(queue), visited)
       IN collectGroup(board, color, r.queue, r.visited, Append(group, current))

\* lines 63-72: the set of keys of the empty neighbours of the group's stones
uniqueLiberties(board, group) ==
  UNION {{Key(n) : n \in {m \in Range(getNeighbors(stone, Size(board))) :
                            board[m.y][m.x] = Empty}} : stone \in Range(group)}

\* the empty neighbours counted stone by stone, a shared one once per stone
RECURSIVE countLibertiesPerStone(_, _, _)
countLibertiesPerStone(board, group, i) ==
  IF i > Len(group) THEN 0
  ELSE Cardinality({m \in Range(getNeighbors(group[i], Size(board))) :
                      board[m.y][m.x] = Empty})
       + countLibertiesPerStone(board, group, i + 1)

getGroupLibertiesPerStone(board, start, color) ==
  LET group == collectGroup(board, color, <<start>>, {Key(start)}, <<>>)
  IN [liberties |-> countLibertiesPerStone(board, group, 1), group |-> group]

getGroupLiberties(board, start, color) ==
  LET group == collectGroup(board, color, <<start>>, {Key(start)}, <<>>)
  IN [liberties |-> Cardinality(uniqueLiberties(board, group)), group |-> group]

\* [...state.board]: a new outer array of the same row objects
cloneBoardShallow(board) == [rows |-> board, fresh |-> [y \in DOMAIN board |-> FALSE]]

\* line 86, state.board.map(row => [...row]): a new outer array of new rows.
\* rows holds the contents, fresh[y] tells that row y is a new object and not
\* the row object of the input state.
cloneBoard(board) == [rows |-> board, fresh |-> [y \in DOMAIN board |-> TRUE]]

\* newBoard[x][y] = v: the indices the other way round
setCellTransposed(nb, x, y, v) == [nb EXCEPT !.rows[x][y] = v]

\* newBoard[y][x] = v
setCell(nb, x, y, v) == [nb EXCEPT !.rows[y][x] = v]

\* the move put in front of the history
appendMoveFront(moveHistory, c) == [items |-> <<c>> \o moveHistory, fresh |-> TRUE]

\* state.moveHistory.push({ x, y }): the array of the input state itself
appendMovePush(moveHistory, c) == [items |-> Append(moveHistory, c), fresh |-> FALSE]

\* line 118, [...state.moveHistory, { x, y }]: a new array
appendMove(moveHistory, c) == [items |-> Append(moveHistory, c), fresh |-> TRUE]

\* what the input state object reads after the call: a row or a history array
\* shared with the working copies shows the writes made through them
inputAfter(state, nb, mh) ==
  [state EXCEPT
     !.board = [y \in DOMAIN state.board |->
                  IF nb.fresh[y] THEN state.board[y] ELSE nb.rows[y]],
     !.moveHistory = IF mh.fresh THEN state.moveHistory ELSE mh.items]

\* the count raised once for a captured group, not once for each stone
RECURSIVE captureGroupCountedOnce(_, _, _, _)
captureGroupCountedOnce(nb, group, i, count) ==
  IF i > Len(group) THEN [nb |-> nb, count |-> count]
  ELSE captureGroupCountedOnce(setCell(nb, group[i].x, group[i].y, Empty), group, i + 1,
                               IF i = 1 THEN count + 1 ELSE count)

\* lines 98-101, group.forEach: every stone of the group is emptied and counted
RECURSIVE captureGroup(_, _, _, _)
captureGroup(nb, group, i, count) ==
  IF i > Len(group) THEN [nb |-> nb, count |-> count]
  ELSE captureGroup(setCell(nb, group[i].x, group[i].y, Empty), group, i + 1, count + 1)

\* the loop left after the first captured group
RECURSIVE checkCapturesFirstOnly(_, _, _, _, _)
checkCapturesFirstOnly(nb, ns, i, opponent, count) ==
  IF i > Len(ns) THEN [nb |-> nb, count |-> count]
  ELSE LET n == ns[i]
       IN IF nb.rows[n.y][n.x] = opponent
          THEN LET g == getGroupLiberties(nb.rows, n, opponent)
               IN IF g.liberties = 0
                  THEN captureGroup(nb, g.group, 1, count)
                  ELSE checkCapturesFirstOnly(nb, ns, i + 1, opponent, count)
          ELSE checkCapturesFirstOnly(nb, ns, i + 1, opponent, count)

\* lines 93-104, neighbors.forEach on the one working board
RECURSIVE checkCaptures(_, _, _, _, _)
checkCaptures(nb, ns, i, opponent, count) ==
  IF i > Len(ns) THEN [nb |-> nb, count |-> count]
  ELSE LET n == ns[i]
       IN IF nb.rows[n.y][n.x] = opponent
          THEN LET g == getGroupLiberties(nb.rows, n, opponent)
               IN IF g.liberties = 0
                  THEN LET c == captureGroup(nb, g.group, 1, count)
                       IN checkCaptures(c.nb, ns, i + 1, opponent, c.count)
                  ELSE checkCaptures(nb, ns, i + 1, opponent, count)
          ELSE checkCaptures(nb, ns, i + 1, opponent, count)

\* { success: false, error }: no newState
rejected(error, input) ==
  [outcome |-> "rejected", success |-> FALSE, error |-> error, newState |-> <<>>,
   input |-> input, sharedRows |-> {}, sharedHistory |-> FALSE]

\* state.board[y] is undefined when y is no index of the outer array:
\* reading [x] of it raises a TypeError
thrown(error, input) ==
  [outcome |-> "thrown", success |-> FALSE, error |-> error, newState |-> <<>>,
   input |-> input, sharedRows |-> {}, sharedHistory |-> FALSE]

\* both branches of the conditional give the mover's own colour
opponentOfSame(player) == IF player = Black THEN Black ELSE White

\* line 83
opponentOf(player) == IF player = Black THEN White ELSE Black

\* a group with one liberty left taken for dead
isSuicideOffByOne(selfLiberties, capturedStonesCount) ==
  selfLiberties <= 1 /\ capturedStonesCount = 0

\* line 108
isSuicide(selfLiberties, capturedStonesCount) ==
  selfLiberties = 0 /\ capturedStonesCount = 0

\* the tally added to both counters
acceptedBothCounters(state, x, y, opponent, nb, count) ==
  LET mh == appendMove(state.moveHistory, Coordinate(x, y))
  IN [outcome |-> "accepted", success |-> TRUE, error |-> "",
      newState |-> <<[state EXCEPT
         !.board = nb.rows,
         !.currentPlayer = opponent,
         !.moveHistory = mh.items,
         !.lastMove = <<Coordinate(x, y)>>,
         !.capturedBlack = state.capturedBlack + count,
         !.capturedWhite = state.capturedWhite + count]>>,
      input |-> inputAfter(state, nb, mh),
      sharedRows |-> {r \in DOMAIN nb.fresh : ~nb.fresh[r]},
      sharedHistory |-> ~mh.fresh]

\* the game ended by a move that captures
acceptedEndsGame(state, x, y, opponent, nb, count) ==
  LET mh == appendMove(state.moveHistory, Coordinate(x, y))
  IN [outcome |-> "accepted", success |-> TRUE, error |-> "",
      newState |-> <<[state EXCEPT
         !.board = nb.rows,
         !.currentPlayer = opponent,
         !.moveHistory = mh.items,
         !.lastMove = <<Coordinate(x, y)>>,
         !.capturedBlack = IF state.currentPlayer = White
                           THEN state.capturedBlack + count ELSE state.capturedBlack,
         !.capturedWhite = IF state.currentPlayer = Black
                           THEN state.capturedWhite + count ELSE state.capturedWhite,
         !.isGameOver = count > 0]>>,
      input |-> inputAfter(state, nb, mh),
      sharedRows |-> {r \in DOMAIN nb.fresh : ~nb.fresh[r]},
      sharedHistory |-> ~mh.fresh]

\* lines 112-123, { success: true, newState: { ...state, board, ... } }
accepted(state, x, y, opponent, nb, count) ==
  LET mh == appendMove(state.moveHistory, Coordinate(x, y))
  IN [outcome |-> "accepted", success |-> TRUE, error |-> "",
      newState |-> <<[state EXCEPT
         !.board = nb.rows,
         !.currentPlayer = opponent,
         !.moveHistory = mh.items,
         !.lastMove = <<Coordinate(x, y)>>,
         !.capturedBlack = IF state.currentPlayer = White
                           THEN state.capturedBlack + count ELSE state.capturedBlack,
         !.capturedWhite = IF state.currentPlayer = Black
                           THEN state.capturedWhite + count ELSE state.capturedWhite]>>,
      input |-> inputAfter(state, nb, mh),
      sharedRows |-> {r \in DOMAIN nb.fresh : ~nb.fresh[r]},
      sharedHistory |-> ~mh.fresh]

\* a basic ko rule: a move that takes exactly the stone just played, with a
\* single stone that is left with one liberty, is turned down
placeStoneBasicKo(state, x, y) ==
  LET size == state.boardSize
      opponent == opponentOf(state.currentPlayer)
      newBoard == setCell(cloneBoard(state.board), x, y, state.currentPlayer)
      neighbors == getNeighbors(Coordinate(x, y), size)
      cap == checkCaptures(newBoard, neighbors, 1, opponent, 0)
      self == getGroupLiberties(cap.nb.rows, Coordinate(x, y), state.currentPlayer)
      ko == /\ cap.count = 1
            /\ state.lastMove # <<>>
            /\ cap.nb.rows[state.lastMove[1].y][state.lastMove[1].x] = Empty
            /\ Len(self.group) = 1
            /\ self.liberties = 1
  IN IF isSuicide(self.liberties, cap.count)
     THEN rejected("Suicide move not allowed",
                   inputAfter(state, cap.nb, [items |-> state.moveHistory, fresh |-> TRUE]))
     ELSE IF ko
     THEN rejected("Ko", inputAfter(state, cap.nb, [items |-> state.moveHistory, fresh |-> TRUE]))
     ELSE accepted(state, x, y, opponent, cap.nb, cap.count)

\* the suicide test made on the board before the captures are resolved
placeStoneSuicideFirst(state, x, y) ==
  LET size == state.boardSize
      opponent == opponentOf(state.currentPlayer)
      newBoard == setCell(cloneBoard(state.board), x, y, state.currentPlayer)
      neighbors == getNeighbors(Coordinate(x, y), size)
      selfLiberties ==
        getGroupLiberties(newBoard.rows, Coordinate(x, y), state.currentPlayer).liberties
      cap == checkCaptures(newBoard, neighbors, 1, opponent, 0)
  IN IF selfLiberties = 0
     THEN rejected("Suicide move not allowed",
                   inputAfter(state, newBoard, [items |-> state.moveHistory, fresh |-> TRUE]))
     ELSE accepted(state, x, y, opponent, cap.nb, cap.count)

\* lines 82-123 of playMove: the stone is placed on the clone, the captures
\* are resolved, then the suicide test, then the successor
placeStone(state, x, y) ==
  LET size == state.boardSize
      opponent == opponentOf(state.currentPlayer)
      newBoard == setCell(cloneBoard(state.board), x, y, state.currentPlayer)
      neighbors == getNeighbors(Coordinate(x, y), size)
      cap == checkCaptures(newBoard, neighbors, 1, opponent, 0)
      selfLiberties ==
        getGroupLiberties(cap.nb.rows, Coordinate(x, y), state.currentPlayer).liberties
  IN IF isSuicide(selfLiberties, cap.count)
     THEN rejected("Suicide move not allowed",
                   inputAfter(state, cap.nb, [items |-> state.moveHistory, fresh |-> TRUE]))
     ELSE accepted(state, x, y, opponent, cap.nb, cap.count)

\* the occupied test made before the game-over test
playMoveOccupiedFirst(state, x, y) ==
  IF y \notin DOMAIN state.board THEN thrown("TypeError", state)
  ELSE IF x \notin DOMAIN state.board[y] THEN rejected("Spot occupied", state)
  ELSE IF state.board[y][x] # Empty THEN rejected("Spot occupied", state)
  ELSE IF state.isGameOver THEN rejected("Game Over", state)
  ELSE placeStone(state, x, y)

\* lines 78-80, then the rest.  state.board[y][x] with y no row index throws;
\* with y a row index and x no column index it is undefined, which is not
\* PlayerColor.Empty
playMove(state, x, y) ==
  IF state.isGameOver THEN rejected("Game Over", state)
  ELSE IF y \notin DOMAIN state.board THEN thrown("TypeError", state)
  ELSE IF x \notin DOMAIN state.board[y] THEN rejected("Spot occupied", state)
  ELSE IF state.board[y][x] # Empty THEN rejected("Spot occupied", state)
  ELSE placeStone(state, x, y)

\* ------------------------------------------------- calculateInfluence
\* lines 170-171: dy and dx run from -RADIUS to RADIUS
RADIUS == 3

\* Math.abs
abs(n) == IF n < 0 THEN 0 - n ELSE n

\* lines 176-180
impactOf(dist) ==
  IF dist = 0 THEN 6
  ELSE IF dist = 1 THEN 4
  ELSE IF dist = 2 THEN 2
  ELSE IF dist = 3 THEN 1
  ELSE 0

\* influence[ny][nx] = v: the cell overwritten
setImpact(old, v) == v

\* line 182, influence[ny][nx] += v
addImpact(old, v) == old + v

\* lines 170-185: the loops over dy and dx for the stone at (x, y).  Each
\* pair (dy, dx) names one cell (nx, ny) = (x + dx, y + dy), so a cell of the
\* grid (line 174) is added to once when both offsets lie in
\* -RADIUS..RADIUS and is left alone otherwise
radiate(influence, size, x, y, val) ==
  [ny \in 0..(size - 1) |->
     [nx \in 0..(size - 1) |->
        IF abs(nx - x) <= RADIUS /\ abs(ny - y) <= RADIUS
        THEN addImpact(influence[ny][nx], val * impactOf(abs(nx - x) + abs(ny - y)))
        ELSE influence[ny][nx]]]

\* the loop over x of row y with val 1 for either colour
RECURSIVE scanRowSameVal(_, _, _, _)
scanRowSameVal(board, influence, y, x) ==
  IF x >= Size(board) THEN influence
  ELSE IF board[y][x] # Empty
       THEN scanRowSameVal(board, radiate(influence, Size(board), x, y, 1), y, x + 1)
       ELSE scanRowSameVal(board, influence, y, x + 1)

\* lines 165-187: the loop over x of row y; a stone radiates, val 1 for
\* Black and -1 for White
RECURSIVE scanRow(_, _, _, _)
scanRow(board, influence, y, x) ==
  IF x >= Size(board) THEN influence
  ELSE IF board[y][x] # Empty
       THEN scanRow(board,
                    radiate(influence, Size(board), x, y,
                            IF board[y][x] = Black THEN 1 ELSE 0 - 1),
                    y, x + 1)
       ELSE scanRow(board, influence, y, x + 1)

\* lines 164-188: the loop over y
RECURSIVE scanStones(_, _, _)
scanStones(board, influence, y) ==
  IF y >= Size(board) THEN influence
  ELSE scanStones(board, scanRow(board, influence, y, 0), y + 1)

\* lines 159-190
calculateInfluence(board) ==
  scanStones(board,
             [y \in 0..(Size(board) - 1) |-> [x \in 0..(Size(board) - 1) |-> 0]], 0)

\* ------------------------------------------------------- estimateScore
\* Scores are kept in half points, so that the komi of 7.5 is a whole number.
\* line 199
THRESHOLD == 2

\* whitePoints += 7: a komi of whole points
addKomiWhole(whitePoints) == whitePoints + 14

\* line 212, whitePoints += 7.5
addKomi(whitePoints) == whitePoints + 15

\* a whole number n of points
points(n) == 2 * n

\* lines 201-204: the cells counted for Black (val > THRESHOLD) and for
\* White (val < -THRESHOLD)
secure(influence, colour) ==
  Cardinality({c \in {<<y, x>> : y \in DOMAIN influence, x \in DOMAIN influence} :
                 IF colour = Black THEN influence[c[1]][c[2]] > THRESHOLD
                 ELSE influence[c[1]][c[2]] < 0 - THRESHOLD})

\* each colour is given the counter of its own stones
prisonersOwn(gameState, colour) ==
  IF colour = Black THEN gameState.capturedBlack ELSE gameState.capturedWhite

\* lines 208-209: Black is given capturedWhite, White capturedBlack
prisoners(gameState, colour) ==
  IF colour = Black THEN gameState.capturedWhite ELSE gameState.capturedBlack

\* lines 193-220; diff is in half points
estimateScore(gameState) ==
  LET influence == calculateInfluence(gameState.board)
      blackPoints == points(secure(influence, Black) + prisoners(gameState, Black))
      whitePoints == addKomi(points(secure(influence, White) + prisoners(gameState, White)))
      diff == blackPoints - whitePoints
  IN [leadColor |-> IF diff > 0 THEN Black ELSE White, diff |-> abs(diff)]

\* -------------------------------------------------- getRandomValidMove
\* line 129
attempts == 50

\* the cell taken when it is empty, without the call of playMove
tryCellQuick(gameState, x, y) ==
  [hit |-> gameState.board[y][x] = Empty, gameState |-> gameState]

\* lines 136-141 and 148-150: an empty cell is given to playMove, whose
\* result is dropped but for success; gameState reads afterwards as playMove
\* left it
tryCell(gameState, x, y) ==
  IF gameState.board[y][x] = Empty
  THEN [hit |-> playMove(gameState, x, y).success,
        gameState |-> playMove(gameState, x, y).input]
  ELSE [hit |-> FALSE, gameState |-> gameState]

\* lines 132-133: Math.floor(Math.random() * size), Math.random() in [0, 1)
randomIndex(size) == 0..(size - 1)

\* ---------------------------------------------------------------- caller
\* state    the GameState the caller holds (gameState of App.tsx)
\* history  the snapshots of the earlier states, oldest first (App.tsx:104)
\* alias    alias[i] = the rows of snapshot i that are the same objects as
\*          the rows of the current state
\* played   the coordinates of the calls that were accepted, in order
\* call     the last call of playMove: its arguments, the state passed in as
\*          it read before the call, and the result
\* finder   the position of a call of getRandomValidMove(state): pc the loop
\*          it is in, given the state passed in as it read before the call,
\*          i the random attempts made, (x, y) the cell of the scan, result
\*          the value returned (<<>> for null), via the loop it returned from
\* ai       the AI turn of makeMove (App.tsx:133-217): pc where it stands,
\*          isAiThinking, the locals aiAttempts and validMoveFound, asked the
\*          calls of getAIMove made in the turn, turns the accepted player
\*          moves so far
\* app      the rest of what the turn reads and writes: errorMsg ("" for
\*          null), timer a setTimeout that clears errorMsg is pending,
\*          playerMovedState, invalidCandidates, passed the invalidCandidates
\*          as the last call of getAIMove was given them, analysisHistory,
\*          isAnalyzing, analyses the calls of analyzeMove in flight, each
\*          with what its then-handler holds
\* svc      one call of getAIMove or analyzeMove of geminiService.ts: fn the
\*          function, pc where it stands, attempt the local of
\*          callWithRetry, calls the invocations of fn made, running those
\*          in flight, failed the errors of the invocations that failed,
\*          waited the delays slept, settled what callWithRetry gave,
\*          response what the service answered, result what the call gave
\*          its caller
VARIABLES state, history, alias, played, call, finder, ai, app, svc

vars == <<state, history, alias, played, call, finder, ai, app, svc>>

Coords == (0 - 1)..BoardN

Cells == {Coordinate(x, y) : x \in 0..(BoardN - 1), y \in 0..(BoardN - 1)}

NoCall == [made |-> FALSE, x |-> 0, y |-> 0, pre |-> createInitialState(BoardN),
           res |-> rejected("", createInitialState(BoardN))]

\* the snapshots as they read after a call that went from board `before` to
\* board `after` of the object passed in: an aliased row follows the object
seenHistory(before, after) ==
  [i \in 1..Len(history) |->
     [history[i] EXCEPT !.board = [y \in DOMAIN history[i].board |->
        IF y \in alias[i] THEN after[y] ELSE history[i].board[y]]]]

\* one call of playMove on the state held, as makeMove does (App.tsx:96-110):
\* an accepted move saves the old state and holds the new one.  The result
\* is computed once, into call', and read from there.
Call(x, y) ==
  /\ call' = [made |-> TRUE, x |-> x, y |-> y, pre |-> state,
              res |-> playMove(state, x, y)]
  /\ state' = IF call'.res.success THEN call'.res.newState[1] ELSE call'.res.input
  /\ history' = IF call'.res.success
                THEN Append(seenHistory(state.board, call'.res.input.board), call'.res.input)
                ELSE seenHistory(state.board, call'.res.input.board)
  /\ alias' = IF call'.res.success
              THEN Append([i \in 1..Len(alias) |-> alias[i] \cap call'.res.sharedRows],
                          call'.res.sharedRows)
              ELSE alias
  /\ played' = IF call'.res.success THEN Append(played, Coordinate(x, y)) ELSE played
  /\ UNCHANGED <<finder, svc>>

\* one call of playMove on the state a handler kept in a local, as the AI
\* turn does with playerMovedState (App.tsx:150-160): an accepted move is
\* held as the new state and the local is put at the end of the snapshots
\* as they are by then, whatever state is held meanwhile
CallOn(gameState, x, y) ==
  /\ call' = [made |-> TRUE, x |-> x, y |-> y, pre |-> gameState,
              res |-> playMove(gameState, x, y)]
  /\ state' = IF call'.res.success THEN call'.res.newState[1]
              ELSE IF state = gameState THEN call'.res.input ELSE state
  /\ history' = IF call'.res.success
                THEN Append(seenHistory(gameState.board, call'.res.input.board),
                            call'.res.input)
                ELSE seenHistory(gameState.board, call'.res.input.board)
  /\ alias' = IF call'.res.success
              THEN Append([i \in 1..Len(alias) |-> alias[i] \cap call'.res.sharedRows],
                          call'.res.sharedRows)
              ELSE alias
  /\ played' = IF call'.res.success THEN Append(played, Coordinate(x, y)) ELSE played
  /\ UNCHANGED <<finder, svc>>

\* App.tsx:22 and 138-139: no AI turn is under way
NoAi ==
  [pc |-> "idle", isAiThinking |-> FALSE, aiAttempts |-> 0, validMoveFound |-> FALSE,
   asked |-> 0, turns |-> 0]

\* App.tsx:23 and 140
NoApp ==
  [errorMsg |-> "", timer |-> FALSE, playerMovedState |-> <<>>,
   invalidCandidates |-> <<>>, passed |-> <<>>, analysisHistory |-> <<>>,
   isAnalyzing |-> FALSE, analyses |-> <<>>]

\* no call of the service is under way
NoSvc ==
  [fn |-> "", pc |-> "idle", attempt |-> 0, calls |-> 0, running |-> 0,
   failed |-> <<>>, waited |-> <<>>, settled |-> <<>>, response |-> <<>>,
   result |-> <<>>]

\* no call of getRandomValidMove is under way
NoFinder ==
  [pc |-> "idle", given |-> <<>>, i |-> 0, x |-> 0, y |-> 0, via |-> "", result |-> <<>>]

\* the call returns v from the loop named: its locals are gone
returned(v, loop) ==
  [finder EXCEPT !.pc = "done", !.i = 0, !.x = 0, !.y = 0, !.via = loop, !.result = v]

PlayMove(x, y) ==
  Len(state.moveHistory) < MaxMoves /\ Call(x, y) /\ UNCHANGED <<ai, app>>

PlayOnce(x, y) == ~call.made /\ Call(x, y) /\ UNCHANGED <<ai, app>>

Init ==
  /\ state = createInitialState(BoardN)
  /\ history = <<>>
  /\ alias = <<>>
  /\ played = <<>>
  /\ call = NoCall
  /\ finder = NoFinder
  /\ ai = NoAi
  /\ app = NoApp
  /\ svc = NoSvc

Next == \E x \in Coords, y \in Coords : PlayMove(x, y)

Spec == Init /\ [][Next]_vars

\* every group of the board has a liberty, as after any accepted move
hasLiberty(board, c) ==
  getGroupLiberties(board, c, board[c.y][c.x]).liberties > 0

boardOf(stones, colour) ==
  [y \in 0..(BoardN - 1) |-> [x \in 0..(BoardN - 1) |->
     IF Coordinate(x, y) \in stones THEN colour[Coordinate(x, y)] ELSE Empty]]

\* the inputs of playMove as a function: any position of at most MaxStones
\* stones in which every group has a liberty, either player to move, the
\* game over or not
InitAny ==
  \E stones \in SUBSET Cells :
    /\ Cardinality(stones) <= MaxStones
    /\ \E colour \in [stones -> {Black, White}], player \in {Black, White},
          over \in BOOLEAN :
         /\ \A c \in stones : hasLiberty(boardOf(stones, colour), c)
         /\ state = [createInitialState(BoardN) EXCEPT
                       !.board = boardOf(stones, colour),
                       !.currentPlayer = player,
                       !.isGameOver = over]
    /\ history = <<>>
    /\ alias = <<>>
    /\ played = <<>>
    /\ call = NoCall
    /\ finder = NoFinder
    /\ ai = NoAi
    /\ app = NoApp
    /\ svc = NoSvc

NextAny == \E x \in Coords, y \in Coords : PlayOnce(x, y)

SpecAny == InitAny /\ [][NextAny]_vars

\* up to MaxKoCalls accepted calls in a row on a position given, as a capture
\* and the recapture are; no call follows a call that was turned down.
\* The positions are those of at most MaxStones - 1 stones, the game not over.
PlayAgain(x, y) ==
  /\ Len(played) < MaxKoCalls
  /\ call.made => call.res.success
  /\ Call(x, y)
  /\ UNCHANGED <<ai, app>>

InitKo ==
  \E stones \in SUBSET Cells :
    /\ Cardinality(stones) < MaxStones
    /\ \E colour \in [stones -> {Black, White}], player \in {Black, White} :
         /\ \A c \in stones : hasLiberty(boardOf(stones, colour), c)
         /\ state = [createInitialState(BoardN) EXCEPT
                       !.board = boardOf(stones, colour),
                       !.currentPlayer = player]
    /\ history = <<>>
    /\ alias = <<>>
    /\ played = <<>>
    /\ call = NoCall
    /\ finder = NoFinder
    /\ ai = NoAi
    /\ app = NoApp
    /\ svc = NoSvc

NextKo == \E c \in Cells : PlayAgain(c.x, c.y)

SpecKo == InitKo /\ [][NextKo]_vars

\* getRandomValidMove(state) on a position of at most MaxFinderStones stones,
\* either player to move, the game over or not, or on a crowded board.  Each pass through a loop
\* body is a step; the random picks are any two indices.
\* lines 131-143: one pass of the loop of random attempts
RandomAttempt(x, y) ==
  /\ finder.pc = "random"
  /\ finder.i < attempts
  /\ state' = tryCell(state, x, y).gameState
  /\ finder' = IF tryCell(state, x, y).hit
                THEN returned(<<Coordinate(x, y)>>, "random")
                ELSE [finder EXCEPT !.i = @ + 1]
  /\ UNCHANGED <<history, alias, played, call, ai, app, svc>>

\* return null once the random attempts are used up, without the scan
RandomExhaustedReturnsNull ==
  /\ finder.pc = "random"
  /\ finder.i >= attempts
  /\ finder' = returned(<<>>, "random")
  /\ UNCHANGED <<state, history, alias, played, call, ai, app, svc>>

\* lines 131 and 146: i < attempts fails, the scan starts at y = 0
RandomExhausted ==
  /\ finder.pc = "random"
  /\ finder.i >= attempts
  /\ finder' = [finder EXCEPT !.pc = "scan", !.x = 0, !.y = 0]
  /\ UNCHANGED <<state, history, alias, played, call, ai, app, svc>>

\* the scan going down the columns: the outer index taken as x
ScanCellByColumns ==
  /\ finder.pc = "scan"
  /\ finder.y < state.boardSize
  /\ finder.x < state.boardSize
  /\ state' = tryCell(state, finder.y, finder.x).gameState
  /\ finder' = IF tryCell(state, finder.y, finder.x).hit
                THEN returned(<<Coordinate(finder.y, finder.x)>>, "scan")
                ELSE [finder EXCEPT !.x = @ + 1]
  /\ UNCHANGED <<history, alias, played, call, ai, app, svc>>

\* lines 147-152: one pass of the inner loop of the scan
ScanCell ==
  /\ finder.pc = "scan"
  /\ finder.y < state.boardSize
  /\ finder.x < state.boardSize
  /\ state' = tryCell(state, finder.x, finder.y).gameState
  /\ finder' = IF tryCell(state, finder.x, finder.y).hit
                THEN returned(<<Coordinate(finder.x, finder.y)>>, "scan")
                ELSE [finder EXCEPT !.x = @ + 1]
  /\ UNCHANGED <<history, alias, played, call, ai, app, svc>>

\* lines 146-147: x < size fails, the next row starts at x = 0
ScanNextRow ==
  /\ finder.pc = "scan"
  /\ finder.y < state.boardSize
  /\ finder.x >= state.boardSize
  /\ finder' = [finder EXCEPT !.x = 0, !.y = @ + 1]
  /\ UNCHANGED <<state, history, alias, played, call, ai, app, svc>>

\* lines 146 and 155: y < size fails, return null
ScanEnd ==
  /\ finder.pc = "scan"
  /\ finder.y >= state.boardSize
  /\ finder' = returned(<<>>, "scan")
  /\ UNCHANGED <<state, history, alias, played, call, ai, app, svc>>

\* a crowded board: stones of one colour, no two empty cells next to each
\* other (the board with no empty cell among them)
crowded(stones, colour) ==
  /\ \A a \in Cells \ stones : Range(getNeighbors(a, BoardN)) \subseteq stones
  /\ \E p \in {Black, White} : \A c \in stones : colour[c] = p

InitRandom ==
  \E stones \in SUBSET Cells :
    /\ \E colour \in [stones -> {Black, White}], player \in {Black, White},
          over \in BOOLEAN :
         /\ \/ /\ Cardinality(stones) <= MaxFinderStones
               /\ \A c \in stones : hasLiberty(boardOf(stones, colour), c)
            \/ crowded(stones, colour) /\ ~over
         /\ state = [createInitialState(BoardN) EXCEPT
                       !.board = boardOf(stones, colour),
                       !.currentPlayer = player,
                       !.isGameOver = over]
    /\ history = <<>>
    /\ alias = <<>>
    /\ played = <<>>
    /\ call = NoCall
    /\ finder = [NoFinder EXCEPT !.pc = "random", !.given = <<state>>]
    /\ ai = NoAi
    /\ app = NoApp
    /\ svc = NoSvc

NextRandom ==
  \/ \E x \in randomIndex(state.boardSize), y \in randomIndex(state.boardSize) :
       RandomAttempt(x, y)
  \/ RandomExhausted
  \/ ScanCell
  \/ ScanNextRow
  \/ ScanEnd

SpecRandom == InitRandom /\ [][NextRandom]_vars

\* the values finder takes during a call
FinderStates ==
  [pc : {"random", "scan", "done"}, given : {finder.given}, i : 0..attempts,
   x : 0..BoardN, y : 0..BoardN, via : {"", "random", "scan"},
   result : {<<>>} \cup {<<c>> : c \in Cells}]

\* a call that has not returned moves on
Pass == finder.pc \in {"random", "scan"} /\ finder' \in FinderStates /\ finder' # finder

\* the call runs to its return: the function is synchronous, nothing else
\* runs in between and every pass through a loop body ends
SpecRandomRuns == SpecRandom /\ WF_finder(Pass)

\* ------------------------------------------------------ makeMove, AI turn
\* App.tsx:141
MAX_ATTEMPTS == 3

\* App.tsx:98, the text shown when playMove gives no error text
InvalidMoveMsg == "Invalid move"

\* App.tsx:204, the text (Chinese in the source) shown after a fallback move
FallbackMsg == "AI in difficulty, random move played"

\* App.tsx:208, the text (Chinese in the source) shown when the fallback
\* finds no move
NoMoveMsg == "No way to go (Game Over?)"

\* App.tsx:98: result.error || "Invalid move"
errorOr(error) == IF error = "" THEN InvalidMoveMsg ELSE error

\* the coordinates getAIMove is taken to answer with: cells of the board
\* (geminiService.ts:234-249 gives in-range cells only) and, from the legacy
\* reply (geminiService.ts:481-483), numbers off the board on either axis
Proposals ==
  {Coordinate(0, 0), Coordinate(BoardN, 0), Coordinate(0, BoardN)}

\* geminiService.ts:396-494: getAIMove answers with a move, with none, or
\* throws
Replies ==
  {[kind |-> "null", move |-> <<>>], [kind |-> "throw", move |-> <<>>]}
    \cup {[kind |-> "move", move |-> <<c>>] : c \in Proposals}

\* App.tsx:185 and 187-189: no call of playMove was made on the reply
noMove(kind, input) ==
  [outcome |-> kind, success |-> FALSE, error |-> "", newState |-> <<>>,
   input |-> input, sharedRows |-> {}, sharedHistory |-> FALSE]

\* App.tsx:147-152: what comes of one reply on the position held
tried(gameState, r) ==
  IF r.kind = "move"
  THEN playMove(gameState, r.move[1].x, r.move[1].y)
  ELSE noMove(r.kind, gameState)

\* the loop is left at once: the test of line 144 reads aiAttempts < MAX_ATTEMPTS
loopEndsEarly(aiAttempts) == aiAttempts + 1 >= MAX_ATTEMPTS

\* App.tsx:144, after the aiAttempts++ of lines 182, 185, 188: the loop is
\* left when aiAttempts <= MAX_ATTEMPTS fails
loopEnds(aiAttempts) == aiAttempts + 1 > MAX_ATTEMPTS

\* the rejected coordinate is dropped
pushNothing(invalidCandidates, r, outcome) == invalidCandidates

\* App.tsx:180-181: a coordinate playMove rejected is pushed; a reply without
\* a move (185) and an exception (187-189) push nothing
push(invalidCandidates, r, outcome) ==
  IF r.kind = "move" /\ outcome = "rejected"
  THEN Append(invalidCandidates, r.move[1])
  ELSE invalidCandidates

\* the fallback finds no cell
getRandomValidMoveNone(gameState) == {<<>>}

\* goGame.ts:127-156 as a whole: a cell the random loop or the scan may
\* return, none when no cell passes
getRandomValidMove(gameState) ==
  LET hits == {c \in Cells : tryCell(gameState, c.x, c.y).hit}
  IN IF hits = {} THEN {<<>>} ELSE {<<c>> : c \in hits}

\* App.tsx:94-141: a click on the board while no AI turn is under way
\* (App.tsx:283).  A rejected move shows the error and starts the timer
\* that clears it; an accepted one asks for the analysis of the move and
\* starts the AI turn with the first call of getAIMove
Click(x, y) ==
  /\ ~ai.isAiThinking
  /\ ai.turns < MaxTurns
  /\ Call(x, y)
  /\ IF call'.res.success
     THEN /\ ai' = [pc |-> "await", isAiThinking |-> TRUE, aiAttempts |-> 0,
                    validMoveFound |-> FALSE, asked |-> 1, turns |-> ai.turns + 1]
          /\ app' = [app EXCEPT !.errorMsg = "", !.playerMovedState = <<state'>>,
                                !.invalidCandidates = <<>>, !.passed = <<>>,
                                !.isAnalyzing = TRUE,
                                !.analyses = Append(@,
                                   [moveNumber |-> Len(state'.moveHistory),
                                    player |-> state.currentPlayer,
                                    coordinate |-> Coordinate(x, y)])]
     ELSE /\ ai' = ai
          /\ app' = [app EXCEPT !.errorMsg = errorOr(call'.res.error), !.timer = TRUE]

\* App.tsx:99 and 205: a timer set with a message runs out and clears the
\* message shown; others may still be pending
ErrorTimeout ==
  /\ app.timer
  /\ \E pending \in BOOLEAN : app' = [app EXCEPT !.errorMsg = "", !.timer = pending]
  /\ UNCHANGED <<state, history, alias, played, call, finder, ai, svc>>

\* App.tsx:147-176 and 215: the reply is a move playMove accepts on
\* playerMovedState; it is applied, its analysis is asked for and the turn
\* ends, the locals of the turn are gone
AiMoveAccepted(r) ==
  /\ ai.pc = "await"
  /\ r.kind = "move"
  /\ CallOn(app.playerMovedState[1], r.move[1].x, r.move[1].y)
  /\ call'.res.success
  /\ ai' = [ai EXCEPT !.pc = "idle", !.isAiThinking = FALSE, !.validMoveFound = TRUE]
  /\ app' = [app EXCEPT !.invalidCandidates = <<>>, !.passed = <<>>,
                        !.isAnalyzing = TRUE,
                        !.analyses = Append(@,
                           [moveNumber |-> Len(app.playerMovedState[1].moveHistory) + 1,
                            player |-> White,
                            coordinate |-> r.move[1]])]

\* App.tsx:147-189 and 144: the reply is no move, an exception or a move
\* playMove does not accept, and the loop goes round: getAIMove is called
\* again with the list as it is now
AiRetry(r) ==
  /\ ai.pc = "await"
  /\ ~loopEnds(ai.aiAttempts)
  /\ IF r.kind = "move"
     THEN /\ CallOn(app.playerMovedState[1], r.move[1].x, r.move[1].y)
          /\ ~call'.res.success
     ELSE UNCHANGED <<state, history, alias, played, call, finder, svc>>
  /\ ai' = [ai EXCEPT !.aiAttempts = @ + 1, !.asked = @ + 1]
  /\ \E list \in {push(app.invalidCandidates, r,
                       IF r.kind = "move" THEN call'.res.outcome ELSE r.kind)} :
       app' = [app EXCEPT
                 !.playerMovedState = IF r.kind = "move" THEN <<call'.res.input>> ELSE @,
                 !.invalidCandidates = list, !.passed = list]

\* App.tsx:147-215: the last reply of the loop fails too, and the fallback
\* asks getRandomValidMove: its move is played and announced, or the text
\* for no move is shown; the turn ends, the locals of the turn are gone
AiFallback(r) ==
  /\ ai.pc = "await"
  /\ loopEnds(ai.aiAttempts)
  /\ \E o \in {tried(app.playerMovedState[1], r)} :
       /\ ~o.success
       /\ \E fb \in getRandomValidMove(o.input) :
            /\ call' = IF fb # <<>>
                       THEN [made |-> TRUE, x |-> fb[1].x, y |-> fb[1].y, pre |-> o.input,
                             res |-> playMove(o.input, fb[1].x, fb[1].y)]
                       ELSE IF r.kind = "move"
                       THEN [made |-> TRUE, x |-> r.move[1].x, y |-> r.move[1].y,
                             pre |-> app.playerMovedState[1], res |-> o]
                       ELSE call
            /\ state' = IF fb # <<>> /\ call'.res.success
                        THEN call'.res.newState[1]
                        ELSE IF state # app.playerMovedState[1] THEN state
                        ELSE IF fb # <<>> THEN call'.res.input ELSE o.input
            /\ history' = IF fb # <<>> /\ call'.res.success
                          THEN Append(seenHistory(app.playerMovedState[1].board,
                                                  call'.res.input.board),
                                      call'.res.input)
                          ELSE seenHistory(app.playerMovedState[1].board, o.input.board)
            /\ alias' = IF fb # <<>> /\ call'.res.success
                        THEN Append([i \in 1..Len(alias) |->
                                       alias[i] \cap call'.res.sharedRows],
                                    call'.res.sharedRows)
                        ELSE alias
            /\ played' = IF fb # <<>> /\ call'.res.success
                         THEN Append(played, fb[1]) ELSE played
            /\ app' = [app EXCEPT
                 !.playerMovedState = <<IF fb # <<>> THEN call'.res.input ELSE o.input>>,
                 !.invalidCandidates = <<>>, !.passed = <<>>,
                 !.errorMsg = IF fb = <<>> THEN NoMoveMsg
                              ELSE IF call'.res.success THEN FallbackMsg ELSE @,
                 !.timer = IF fb # <<>> /\ call'.res.success THEN TRUE ELSE @]
  /\ ai' = [ai EXCEPT !.pc = "idle", !.isAiThinking = FALSE, !.aiAttempts = @ + 1]
  /\ UNCHANGED <<finder, svc>>

\* the cells the stones of a starting position are on
Sides == {c \in Cells : (c.x + c.y) % 2 = 1}

\* positions the player (Black, goGame.ts:10) is to move on: stones of the
\* player's on some of the cells of Sides, none of the AI's
InitAI ==
  /\ \E stones \in SUBSET Sides :
       state = [createInitialState(BoardN) EXCEPT
                  !.board = [y \in 0..(BoardN - 1) |-> [x \in 0..(BoardN - 1) |->
                     IF Coordinate(x, y) \in stones THEN Black ELSE Empty]]]
  /\ history = <<>>
  /\ alias = <<>>
  /\ played = <<>>
  /\ call = NoCall
  /\ finder = NoFinder
  /\ ai = NoAi
  /\ app = NoApp
  /\ svc = NoSvc

NextAI ==
  \/ \E x \in 0..(BoardN - 1), y \in 0..(BoardN - 1) : Click(x, y)
  \/ ErrorTimeout
  \/ \E r \in Replies : AiMoveAccepted(r)
  \/ \E r \in Replies : AiRetry(r)
  \/ \E r \in Replies : AiFallback(r)

SpecAI == InitAI /\ [][NextAI]_vars

\* the values ai takes
AiStates ==
  [pc : {"idle", "await"}, isAiThinking : BOOLEAN, aiAttempts : 0..(MAX_ATTEMPTS + 1),
   validMoveFound : BOOLEAN, asked : 0..(MAX_ATTEMPTS + 1), turns : 0..MaxTurns]

\* a call of getAIMove that is awaited returns or throws
AiStep == ai.pc = "await" /\ ai' \in AiStates /\ ai' # ai

\* every call of getAIMove returns or throws in the end (App.tsx:147)
SpecAIRuns == SpecAI /\ WF_ai(AiStep)

\* ------------------------------------------------------ geminiService.ts
\* A string is the sequence of its characters; a text whose characters do
\* not matter is kept in one piece.  A value of JSON carries its type t,
\* with its characters or items in s or its number in n.
Undefined == [t |-> "undefined", s |-> <<>>, n |-> 0]

Str(str) == [t |-> "string", s |-> str, n |-> 0]

Num(n) == [t |-> "number", s |-> <<>>, n |-> n]

Arr(items) == [t |-> "array", s |-> items, n |-> 0]

\* what JSON.parse gives: null, an object with its fields, or another value
JNull == [kind |-> "null", f |-> <<>>]

JOther == [kind |-> "other", f |-> <<>>]

FieldNames ==
  {"move", "x", "y", "evaluation", "score", "title", "detailedAnalysis",
   "strategicContext", "josekiOrProverbs", "territoryChange", "variations"}

JObject(f) == [kind |-> "object", f |-> f]

\* json.name, read where json is not null: undefined on a value that is no
\* object
field(json, name) == IF json.kind = "object" THEN json.f[name] ELSE Undefined

\* the values || passes over: undefined, "", 0
falsy(val) ==
  \/ val.t = "undefined"
  \/ val.t = "string" /\ val.s = <<>>
  \/ val.t = "number" /\ val.n = 0

\* String.prototype.indexOf with a needle of one character
indexOf(str, ch) ==
  IF \E i \in 1..Len(str) : str[i] = ch
  THEN (CHOOSE i \in 1..Len(str) : str[i] = ch /\ \A j \in 1..(i - 1) : str[j] # ch) - 1
  ELSE 0 - 1

lowerCase ==
  <<"a", "b", "c", "d", "e", "f", "g", "h", "i", "j", "k", "l", "m",
    "n", "o", "p", "q", "r", "s", "t", "u", "v", "w", "x", "y", "z">>

upperCase ==
  <<"A", "B", "C", "D", "E", "F", "G", "H", "I", "J", "K", "L", "M",
    "N", "O", "P", "Q", "R", "S", "T", "U", "V", "W", "X", "Y", "Z">>

\* String.prototype.toUpperCase on one character
toUpperCase(ch) ==
  IF indexOf(lowerCase, ch) >= 0 THEN upperCase[indexOf(lowerCase, ch) + 1] ELSE ch

decimals == <<"0", "1", "2", "3", "4", "5", "6", "7", "8", "9">>

RECURSIVE trimStart(_)
trimStart(str) ==
  IF str # <<>> /\ str[1] = " " THEN trimStart(Tail(str)) ELSE str

\* the number the leading digits of str spell after acc, <<>> (NaN) when
\* there is none
RECURSIVE leadingDigits(_, _, _)
leadingDigits(str, acc, any) ==
  IF str # <<>> /\ indexOf(decimals, str[1]) >= 0
  THEN leadingDigits(Tail(str), 10 * acc + indexOf(decimals, str[1]), TRUE)
  ELSE IF any THEN <<acc>> ELSE <<>>

\* parseInt(str, 10): leading blanks are skipped, a sign is read, then the
\* digits up to the first other character
parseInt(str) ==
  LET s == trimStart(str)
      signed == s # <<>> /\ s[1] \in {"-", "+"}
      n == leadingDigits(IF signed THEN Tail(s) ELSE s, 0, FALSE)
  IN IF n = <<>> THEN <<>>
     ELSE IF signed /\ s[1] = "-" THEN <<0 - n[1]>> ELSE n

\* geminiService.ts:236
letters ==
  <<"A", "B", "C", "D", "E", "F", "G", "H", "J", "K", "L", "M", "N", "O", "P",
    "Q", "R", "S", "T">>

\* geminiService.ts:234-249; <<>> is null
fromHumanCoordinate(coordStr) ==
  IF Len(coordStr) < 2 THEN <<>>
  ELSE LET colChar == toUpperCase(coordStr[1])
           rowStr == Tail(coordStr)
           x == indexOf(letters, colChar)
           rowNum == parseInt(rowStr)
       IN IF x = 0 - 1 \/ rowNum = <<>> THEN <<>>
          ELSE IF x < 0 \/ x >= 19 \/ 19 - rowNum[1] < 0 \/ 19 - rowNum[1] >= 19
               THEN <<>>
               ELSE <<Coordinate(x, 19 - rowNum[1])>>

\* geminiService.ts:24-60: the value of the JSON the text carries, bare, in
\* a code block, after a <think> block or between the outermost braces, and
\* null when nothing of it parses
extractJSON(text) == IF text.form = "garbage" THEN JNull ELSE text.json

\* a promise settled: with a value, or with an error
resolved(value) == [kind |-> "resolved", value |-> value]

threw(error) == [kind |-> "rejected", value |-> error]

\* geminiService.ts:473-488: the move read from the reply, <<>> for null
moveOf(json) ==
  IF json.kind # "null" /\ field(json, "move").t = "string"
  THEN fromHumanCoordinate(field(json, "move").s)
  ELSE IF /\ json.kind # "null"
          /\ field(json, "x").t = "number" /\ field(json, "y").t = "number"
       THEN <<Coordinate(field(json, "x").n, field(json, "y").n)>>
       ELSE <<>>

\* geminiService.ts:473-493, getAIMove once the service has answered: a text
\* that is no string makes extractJSON raise, which the catch turns into
\* the error thrown
getAIMoveGiven(response) ==
  IF response.text = <<>> THEN threw("TypeError")
  ELSE resolved([move |-> moveOf(extractJSON(response.text[1])), usage |-> response.usage])

\* val || default
orDefault(val, default) == IF falsy(val) THEN default ELSE val

\* geminiService.ts:614-623, the texts (Chinese in the source) in one piece
safeAnalysis(result) ==
  [evaluation |-> orDefault(field(result, "evaluation"), Str(<<"normal">>)),
   score |-> orDefault(field(result, "score"), Num(70)),
   title |-> orDefault(field(result, "title"), Str(<<"...">>)),
   detailedAnalysis |-> orDefault(field(result, "detailedAnalysis"),
                                  Str(<<"detailed analysis not parsed">>)),
   strategicContext |-> orDefault(field(result, "strategicContext"), Str(<<>>)),
   josekiOrProverbs |-> orDefault(field(result, "josekiOrProverbs"), Arr(<<>>)),
   territoryChange |-> orDefault(field(result, "territoryChange"), Num(0)),
   variations |-> orDefault(field(result, "variations"), Arr(<<>>))]

\* geminiService.ts:633-641, josekiOrProverbs is optional (types.ts:26)
fallback ==
  [evaluation |-> Str(<<"normal">>),
   score |-> Num(75),
   title |-> Str(<<"analysis interrupted">>),
   detailedAnalysis |-> Str(<<"service busy or misconfigured">>),
   strategicContext |-> Str(<<"none yet">>),
   josekiOrProverbs |-> Undefined,
   territoryChange |-> Num(0),
   variations |-> Arr(<<>>)]

\* the catch lets the error out
caughtRethrown(error) == threw(error)

\* geminiService.ts:631-643: the catch of analyzeMove
caught(error) == resolved([analysis |-> fallback, usage |-> 0])

\* geminiService.ts:611-629, analyzeMove once callWithRetry has returned
analyzeMoveGiven(response) ==
  IF response.text = <<>> THEN caught("TypeError")
  ELSE resolved([analysis |-> safeAnalysis(extractJSON(response.text[1])),
                 usage |-> response.usage])

\* geminiService.ts:497, the defaults of callWithRetry
retries == 2

initialDelay == 1000

RECURSIVE pow(_, _)
pow(b, e) == IF e = 0 THEN 1 ELSE b * pow(b, e - 1)

\* the error is let out one failure later
givesUpLate(attempt) == attempt > retries

\* geminiService.ts:503
givesUp(attempt) == attempt >= retries

\* the characters the strings of a reply are made of
Chars == {"A", "t", "I", "1", "9", "0", "-", " "}

Strings == UNION {[1..k -> Chars] : k \in 0..MaxText}

\* the object with the fields of g, the others absent
withFields(g) ==
  JObject([name \in FieldNames |-> IF name \in DOMAIN g THEN g[name] ELSE Undefined])

\* the numbers a legacy reply names
Numbers == {0 - 1, 0, 18, 19}

\* the JSON values a reply to getAIMove carries
MoveJsons ==
  {JNull, JOther, withFields(<<>>)}
    \cup {withFields([n \in {"move"} |-> Str(str)]) : str \in Strings}
    \cup {withFields([n \in {"move", "x", "y"} |->
                        IF n = "move" THEN Str(<<"A", "1">>) ELSE Num(19)])}
    \cup {withFields([n \in {"move", "x", "y"} |->
                        IF n = "move" THEN Num(3) ELSE Num(0)])}
    \cup {withFields([n \in {"x", "y"} |-> IF n = "x" THEN Num(x) ELSE Num(y)]) :
            x \in Numbers, y \in Numbers}
    \cup {withFields([n \in {"x", "y"} |-> IF n = "x" THEN Num(0) ELSE Str(<<"1">>)])}

AnalysisFields ==
  {"evaluation", "score", "title", "detailedAnalysis", "strategicContext",
   "josekiOrProverbs", "territoryChange", "variations"}

\* a field of a reply to analyzeMove: absent, there with a value || passes
\* over, or there with another
Choices(name) ==
  IF name \in {"score", "title"} THEN {"absent", "falsy", "truthy"}
  ELSE {"absent", "truthy"}

chosen(name, choice) ==
  IF choice = "absent" THEN Undefined
  ELSE IF name \in {"score", "territoryChange"}
       THEN Num(IF choice = "falsy" THEN 0 ELSE 88)
  ELSE IF name \in {"josekiOrProverbs", "variations"} THEN Arr(<<"item">>)
  ELSE Str(IF choice = "falsy" THEN <<>> ELSE <<"text">>)

\* the JSON values a reply to analyzeMove carries; the three fields named
\* are there or absent together with evaluation
AnalysisJsons ==
  {JNull, JOther}
    \cup {withFields([n \in AnalysisFields |-> chosen(n, g[n])]) :
            g \in {h \in [AnalysisFields -> {"absent", "falsy", "truthy"}] :
                     /\ \A n \in AnalysisFields : h[n] \in Choices(n)
                     /\ \A n \in {"detailedAnalysis", "strategicContext",
                                   "territoryChange"} : h[n] = h["evaluation"]}}

\* what the service answers: a text, none (content null,
\* geminiService.ts:126), and the tokens used
Responses(jsons) ==
  {[text |-> <<>>, usage |-> 7],
   [text |-> <<[form |-> "garbage", json |-> JNull]>>, usage |-> 7]}
    \cup {[text |-> <<[form |-> fm, json |-> j]>>, usage |-> 7] :
            fm \in {"plain", "fenced"}, j \in jsons}

MoveResponses == Responses(MoveJsons)

AnalysisResponses == Responses(AnalysisJsons)

Errors == {"e1", "e2"}

\* what the then-handler of App.tsx:116-131 holds of the move analysed
Entry == [moveNumber |-> 1, player |-> Black, coordinate |-> Coordinate(0, 0)]

\* geminiService.ts:396-471: getAIMove is called and awaits the service
GetAIMoveStart ==
  /\ svc.pc = "idle"
  /\ svc' = [NoSvc EXCEPT !.fn = "getAIMove", !.pc = "awaitFn", !.calls = 1, !.running = 1]
  /\ UNCHANGED <<state, history, alias, played, call, finder, ai, app>>

\* geminiService.ts:473-488: the service answers getAIMove
GetAIMoveAnswers(response) ==
  /\ svc.fn = "getAIMove" /\ svc.pc = "awaitFn"
  /\ svc' = [svc EXCEPT !.pc = "done", !.running = 0, !.response = <<response>>,
                        !.result = <<getAIMoveGiven(response)>>]
  /\ UNCHANGED <<state, history, alias, played, call, finder, ai, app>>

\* geminiService.ts:489-493: the call of the service fails under getAIMove
GetAIMoveFails(error) ==
  /\ svc.fn = "getAIMove" /\ svc.pc = "awaitFn"
  /\ svc' = [svc EXCEPT !.pc = "done", !.running = 0, !.failed = Append(@, error),
                        !.result = <<threw(error)>>]
  /\ UNCHANGED <<state, history, alias, played, call, finder, ai, app>>

\* App.tsx:115-116 and geminiService.ts:511-609, 497-501: makeMove sets
\* isAnalyzing and calls analyzeMove, which calls callWithRetry, which
\* invokes fn
AnalyzeMoveStart ==
  /\ svc.pc = "idle"
  /\ svc' = [NoSvc EXCEPT !.fn = "analyzeMove", !.pc = "awaitFn", !.calls = 1,
                          !.running = 1]
  /\ app' = [app EXCEPT !.isAnalyzing = TRUE, !.analyses = Append(@, Entry)]
  /\ UNCHANGED <<state, history, alias, played, call, finder, ai>>

\* geminiService.ts:501 and 611-629: fn resolves, callWithRetry returns its
\* value and analyzeMove resolves
FnResolves(response) ==
  /\ svc.fn = "analyzeMove" /\ svc.pc = "awaitFn"
  /\ svc' = [svc EXCEPT !.pc = "settled", !.running = 0, !.response = <<response>>,
                        !.settled = <<resolved(response)>>,
                        !.result = <<analyzeMoveGiven(response)>>]
  /\ UNCHANGED <<state, history, alias, played, call, finder, ai, app>>

\* geminiService.ts:502-506: fn rejects and callWithRetry sleeps before the
\* next invocation
FnRejectsRetry(error) ==
  /\ svc.fn = "analyzeMove" /\ svc.pc = "awaitFn"
  /\ ~givesUp(svc.attempt)
  /\ svc' = [svc EXCEPT !.pc = "delay", !.running = 0, !.failed = Append(@, error),
                        !.attempt = @ + 1,
                        !.waited = Append(@, initialDelay * pow(2, svc.attempt))]
  /\ UNCHANGED <<state, history, alias, played, call, finder, ai, app>>

\* geminiService.ts:502-503 and 631-643: fn rejects for the last time,
\* callWithRetry throws the error and the catch of analyzeMove takes it
FnRejectsLast(error) ==
  /\ svc.fn = "analyzeMove" /\ svc.pc = "awaitFn"
  /\ givesUp(svc.attempt)
  /\ svc' = [svc EXCEPT !.pc = "settled", !.running = 0, !.failed = Append(@, error),
                        !.settled = <<threw(error)>>, !.result = <<caught(error)>>]
  /\ UNCHANGED <<state, history, alias, played, call, finder, ai, app>>

\* geminiService.ts:506 and 499-501: the delay is over, fn is invoked again
DelayEnds ==
  /\ svc.pc = "delay"
  /\ svc' = [svc EXCEPT !.pc = "awaitFn", !.calls = @ + 1, !.running = @ + 1]
  /\ UNCHANGED <<state, history, alias, played, call, finder, ai, app>>

\* App.tsx:116-131: the then-handler of a promise that resolved
ThenHandler ==
  /\ svc.fn = "analyzeMove" /\ svc.pc = "settled"
  /\ svc.result[1].kind = "resolved"
  /\ svc' = [svc EXCEPT !.pc = "done"]
  /\ app' = [app EXCEPT
       !.analysisHistory =
          Append(@, [moveNumber |-> app.analyses[1].moveNumber,
                     player |-> app.analyses[1].player,
                     coordinate |-> app.analyses[1].coordinate,
                     analysis |-> svc.result[1].value.analysis]),
       !.isAnalyzing = FALSE,
       !.analyses = Tail(@)]
  /\ UNCHANGED <<state, history, alias, played, call, finder, ai>>

\* App.tsx:13-23: the application as it starts, no call of the service made
InitService ==
  /\ state = createInitialState(BoardN)
  /\ history = <<>>
  /\ alias = <<>>
  /\ played = <<>>
  /\ call = NoCall
  /\ finder = NoFinder
  /\ ai = NoAi
  /\ app = NoApp
  /\ svc = NoSvc

\* the call of the service awaited resolves or rejects
ServiceSettles ==
  /\ svc.pc = "awaitFn"
  /\ \/ svc.fn = "getAIMove" /\ \E response \in MoveResponses : GetAIMoveAnswers(response)
     \/ \E error \in Errors : GetAIMoveFails(error)
     \/ svc.fn = "analyzeMove" /\ \E response \in AnalysisResponses : FnResolves(response)
     \/ \E error \in Errors : FnRejectsRetry(error)
     \/ \E error \in Errors : FnRejectsLast(error)

NextService ==
  \/ GetAIMoveStart
  \/ AnalyzeMoveStart
  \/ ServiceSettles
  \/ DelayEnds
  \/ ThenHandler

SpecService == InitService /\ [][NextService]_vars

\* a step of a call under way
ServiceRuns == ServiceSettles \/ DelayEnds \/ ThenHandler

\* a call of the service resolves or rejects, a delay ends, a handler of a
\* promise that resolved runs
SpecServiceRuns == SpecService /\ WF_vars(ServiceRuns)

\* ------------------------------------------------- restart, undo, analyses
\* App.tsx:59-67: the button is there whatever goes on (App.tsx:267-273);
\* the AI turn under way and the analyses asked for are left as they are
handleRestart ==
  /\ state' = createInitialState(BoardN)
  /\ history' = <<>>
  /\ alias' = <<>>
  /\ played' = <<>>
  /\ app' = [app EXCEPT !.analysisHistory = <<>>, !.errorMsg = ""]
  /\ UNCHANGED <<call, finder, ai, svc>>

\* App.tsx:75-81: the second snapshot is taken when the first has White to
\* move and is not the only one
stepsToUndo(snapshots) ==
  IF snapshots[Len(snapshots)].currentPlayer = White /\ Len(snapshots) > 1 THEN 2 ELSE 1

\* App.tsx:90
filter(items, currentMoveCount) ==
  SelectSeq(items, LAMBDA item : item.moveNumber <= currentMoveCount)

\* App.tsx:69-92
handleUndo ==
  IF ai.isAiThinking \/ history = <<>>
  THEN UNCHANGED vars
  ELSE \E left \in {Len(history) - stepsToUndo(history)} :
         /\ state' = history[left + 1]
         /\ history' = SubSeq(history, 1, left)
         /\ alias' = SubSeq(alias, 1, left)
         /\ played' = history[left + 1].moveHistory
         /\ app' = [app EXCEPT !.analysisHistory =
                                 filter(@, Len(history[left + 1].moveHistory))]
         /\ UNCHANGED <<call, finder, ai, svc>>

\* what analyzeMove resolves with when the service is out and when it
\* answers with nothing to read (geminiService.ts:613-641)
Analyses == {fallback, safeAnalysis(JOther)}

\* App.tsx:116-131 and 165-176: analyzeMove resolves for one of the moves
\* it was asked about, and the then-handler of that call runs
AnalysisDone(i, analysis) ==
  /\ i \in 1..Len(app.analyses)
  /\ app' = [app EXCEPT
       !.analysisHistory =
          Append(@, [moveNumber |-> app.analyses[i].moveNumber,
                     player |-> app.analyses[i].player,
                     coordinate |-> app.analyses[i].coordinate,
                     analysis |-> analysis]),
       !.isAnalyzing = FALSE,
       !.analyses = SubSeq(@, 1, i - 1) \o SubSeq(@, i + 1, Len(@))]
  /\ UNCHANGED <<state, history, alias, played, call, finder, ai, svc>>

NextApp ==
  \/ \E x \in 0..(BoardN - 1), y \in 0..(BoardN - 1) : Click(x, y)
  \/ ErrorTimeout
  \/ \E r \in Replies : AiMoveAccepted(r)
  \/ \E r \in Replies : AiRetry(r)
  \/ \E r \in Replies : AiFallback(r)
  \/ handleRestart
  \/ handleUndo
  \/ \E i \in 1..2, analysis \in Analyses : AnalysisDone(i, analysis)

\* App.tsx:13-23: the application as it starts
SpecApp == Init /\ [][NextApp]_vars

\* ------------------------------------------------- the rules, stated on sets
\* The properties below are stated with these definitions, which describe
\* groups and liberties without the traversal of the source.
CellsOf(board) == {Coordinate(x, y) : x \in DOMAIN board, y \in DOMAIN board}

At(board, c) == board[c.y][c.x]

Touch(a, b) ==
  \/ a.x = b.x /\ (a.y = b.y + 1 \/ b.y = a.y + 1)
  \/ a.y = b.y /\ (a.x = b.x + 1 \/ b.x = a.x + 1)

Adj(board, c) == {n \in CellsOf(board) : Touch(n, c)}

RECURSIVE Connected(_, _, _)
Connected(board, colour, S) ==
  LET more == {n \in CellsOf(board) \ S :
                 At(board, n) = colour /\ \E m \in S : Touch(n, m)}
  IN IF more = {} THEN S ELSE Connected(board, colour, S \cup more)

\* the maximal group of the stone at c
GroupAt(board, c) == Connected(board, At(board, c), {c})

LibertySet(board, G) ==
  {e \in CellsOf(board) : At(board, e) = Empty /\ \E g \in G : Touch(e, g)}

WithStone(board, c, colour) == [board EXCEPT ![c.y][c.x] = colour]

Without(board, S) ==
  [y \in DOMAIN board |-> [x \in DOMAIN board[y] |->
     IF Coordinate(x, y) \in S THEN Empty ELSE board[y][x]]]

\* the opponent groups next to c that have no liberty once the mover's stone
\* stands on c
DeadGroups(st, c) ==
  LET b == WithStone(st.board, c, st.currentPlayer)
  IN {GroupAt(b, n) : n \in {m \in Adj(b, c) :
        /\ At(b, m) \notin {Empty, st.currentPlayer}
        /\ LibertySet(b, GroupAt(b, m)) = {}}}

DeadStones(st, c) == UNION DeadGroups(st, c)

\* the board once the stone stands on c and the dead groups are taken off
Resolved(st, c) == Without(WithStone(st.board, c, st.currentPlayer), DeadStones(st, c))

SuicideAt(st, c) ==
  /\ LibertySet(Resolved(st, c), GroupAt(Resolved(st, c), c)) = {}
  /\ DeadStones(st, c) = {}

\* ------------------------------------------------------- the last call
Target == Coordinate(call.x, call.y)

InBounds == isValidBound(Target, call.pre.boardSize)

Accepted == call.made /\ call.res.outcome = "accepted"

Rejected == call.made /\ call.res.outcome = "rejected"

\* an in-bounds empty cell of a game that is not over
Playable == call.made /\ ~call.pre.isGameOver /\ InBounds /\ At(call.pre.board, Target) = Empty

Removed == {c \in CellsOf(call.pre.board) :
              At(call.pre.board, c) # Empty /\ At(state.board, c) = Empty}

\* the colour that is not p
Other(p) == IF p = White THEN Black ELSE White

\* the counter of the captured stones of colour p
CapturedOf(st, p) == IF p = Black THEN st.capturedBlack ELSE st.capturedWhite

\* ------------------------------------------------------------- properties
\* C1: a rejected call (game over, occupied, suicide) leaves the state the
\* caller holds equal to the state before the call in every field, the
\* object passed in reads as before, and no successor state is returned.
C1_RejectionLeavesState ==
  Rejected => /\ state = call.pre
              /\ call.res.input = call.pre
              /\ call.res.newState = <<>>

C1_Witness ==
  /\ Rejected
  /\ call.res.error = "Suicide move not allowed"
  /\ InBounds

\* C2: on an in-bounds empty cell of a game that is not over, the call is
\* rejected as suicide exactly when, with the stone placed and the dead
\* adjacent opponent groups removed, the stone's group has no liberty and
\* nothing was captured; otherwise the call is accepted.
C2_SuicideIff ==
  Playable =>
    /\ (Rejected /\ call.res.error = "Suicide move not allowed")
         <=> SuicideAt(call.pre, Target)
    /\ ~SuicideAt(call.pre, Target) => Accepted

C2_Witness ==
  /\ Playable
  /\ Rejected
  /\ SuicideAt(call.pre, Target)
  /\ \E n \in Adj(call.pre.board, Target) :
       At(call.pre.board, n) = call.pre.currentPlayer

\* C3: when an accepted move leaves adjacent opponent groups without a
\* liberty, all their stones are empty afterwards, the counter of the
\* opponent's colour grows by the number of stones taken off the board and
\* the other counter stays.
C3_CaptureRemovesAndCounts ==
  (Accepted /\ DeadStones(call.pre, Target) # {}) =>
    LET mover == call.pre.currentPlayer
        opp == Other(mover)
    IN /\ \A c \in DeadStones(call.pre, Target) : At(state.board, c) = Empty
       /\ Removed # {}
       /\ CapturedOf(state, opp) = CapturedOf(call.pre, opp) + Cardinality(Removed)
       /\ CapturedOf(state, mover) = CapturedOf(call.pre, mover)

C3_Witness ==
  /\ Accepted
  /\ Cardinality(DeadStones(call.pre, Target)) >= 2
  /\ Cardinality(DeadGroups(call.pre, Target)) = 1

\* C4: an accepted move that leaves two or more opponent groups without a
\* liberty, or one such group that touches the placed stone on several
\* sides, removes all of them, and the counter grows by the number of
\* distinct stones of these groups.
C4_MultiGroupCapture ==
  LET dead == DeadGroups(call.pre, Target)
      opp == Other(call.pre.currentPlayer)
      severalSides == \E g \in dead : Cardinality(g \cap Adj(call.pre.board, Target)) >= 2
  IN (Accepted /\ (Cardinality(dead) >= 2 \/ severalSides)) =>
       /\ \A c \in UNION dead : At(state.board, c) = Empty
       /\ CapturedOf(state, opp) = CapturedOf(call.pre, opp) + Cardinality(UNION dead)

C4_Witness ==
  /\ Accepted
  /\ Cardinality(DeadGroups(call.pre, Target)) >= 2

C4_SeveralSidesReached ==
  /\ Accepted
  /\ \E g \in DeadGroups(call.pre, Target) :
       Cardinality(g \cap Adj(call.pre.board, Target)) >= 2

\* C5: a move onto an empty point whose in-bounds neighbours are all
\* occupied, so that the placed stone has no liberty before the captures,
\* is accepted whenever it captures an opponent stone.
C5_SuicideTestAfterCaptures ==
  (/\ Playable
   /\ \A n \in Adj(call.pre.board, Target) : At(call.pre.board, n) # Empty
   /\ DeadStones(call.pre, Target) # {})
  => /\ Accepted
     /\ At(state.board, Target) = call.pre.currentPlayer

C5_Witness ==
  /\ Accepted
  /\ \A n \in Adj(call.pre.board, Target) : At(call.pre.board, n) # Empty
  /\ DeadStones(call.pre, Target) # {}
\* C6: an accepted call returns the successor the caller then holds: the
\* other player is to move, the history is the old history with (x,y)
\* appended, lastMove is (x,y) and the cell (x,y) holds the mover's colour.
C6_AcceptedSuccessor ==
  Accepted =>
    /\ call.res.newState = <<state>>
    /\ state.currentPlayer = Other(call.pre.currentPlayer)
    /\ state.moveHistory = Append(call.pre.moveHistory, Target)
    /\ state.lastMove = <<Target>>
    /\ At(state.board, Target) = call.pre.currentPlayer

C6_Witness ==
  /\ Accepted
  /\ Removed # {}
  /\ Len(state.moveHistory) = MaxMoves

\* C7: after N accepted calls from the initial state, with rejected calls
\* in between, the history has length N and ends with the coordinate of the
\* N-th accepted call; a call that is not accepted leaves the history as it
\* was.
C7_HistoryCountsAccepted ==
  /\ Len(state.moveHistory) = Len(played)
  /\ Len(played) > 0 => state.moveHistory[Len(state.moveHistory)] = played[Len(played)]
  /\ (call.made /\ ~Accepted) => state.moveHistory = call.pre.moveHistory

C7_Witness ==
  /\ Len(played) = MaxMoves - 1
  /\ Rejected
  /\ state.moveHistory[Len(state.moveHistory)] # Target

\* C8: an accepted call leaves the state object passed in as it was, the
\* successor shares no row and no history array with it, and every snapshot
\* kept of an earlier state reads after the call as before it.
C8_InputNotMutated ==
  [][call'.res.outcome = "accepted" =>
       /\ call'.res.input = state
       /\ call'.res.sharedRows = {}
       /\ ~call'.res.sharedHistory
       /\ Len(history') = Len(history) + 1
       /\ \A i \in 1..Len(history) : history'[i] = history[i]
       /\ history'[Len(history')] = state]_vars

C8_Witness ==
  /\ Accepted
  /\ Len(history) >= 3
  /\ \E i \in 1..Len(history) : \E c \in CellsOf(state.board) :
       At(history[i].board, c) # Empty /\ At(state.board, c) = Empty

\* C9: a rule violation is a result value, never an abort, in this order:
\* the game-over flag gives the game-over rejection whatever the target is;
\* otherwise a target that is not empty gives the occupied rejection;
\* otherwise the only rejection is suicide.
C9_RejectionPrecedence ==
  call.made =>
    /\ call.pre.isGameOver => (Rejected /\ call.res.error = "Game Over")
    /\ InBounds => call.res.outcome # "thrown"
    /\ (~call.pre.isGameOver /\ InBounds /\ At(call.pre.board, Target) # Empty)
         => (Rejected /\ call.res.error = "Spot occupied")
    /\ (Playable /\ ~Accepted)
         => (Rejected /\ call.res.error = "Suicide move not allowed")

C9_Witness ==
  /\ call.made
  /\ call.pre.isGameOver
  /\ InBounds
  /\ At(call.pre.board, Target) # Empty
  /\ call.res.error = "Game Over"

\* C10: a call with x or y outside [0, N) raises an error and returns no
\* ordinary accepted or rejected result.
C10_OutOfRangeThrows ==
  (call.made /\ ~InBounds) => call.res.outcome = "thrown"
\* ---------------------------------------------------------------- ko
\* the snapshots as they were before the last call
HistoryBefore == IF Accepted THEN SubSeq(history, 1, Len(history) - 1) ELSE history

\* the last call is a move onto an in-bounds empty point, not suicide, whose
\* resulting board is the board of two plies earlier: the board on which the
\* previous accepted move was played
RepeatsPosition ==
  /\ Playable
  /\ Len(HistoryBefore) > 0
  /\ At(HistoryBefore[Len(HistoryBefore)].board, Target) = call.pre.currentPlayer
  /\ Resolved(call.pre, Target) = HistoryBefore[Len(HistoryBefore)].board
  /\ ~SuicideAt(call.pre, Target)

C12_KoPrevented == RepeatsPosition => Rejected
\* C13: from one state to the next, along every sequence of calls from the
\* initial state, neither capture counter decreases and at most one of them
\* increases.
C13_CountersMonotone ==
  [][/\ state'.capturedBlack >= state.capturedBlack
     /\ state'.capturedWhite >= state.capturedWhite
     /\ ~(/\ state'.capturedBlack > state.capturedBlack
          /\ state'.capturedWhite > state.capturedWhite)]_vars

C13_Witness ==
  /\ Accepted
  /\ state.capturedWhite = call.pre.capturedWhite + 1
  /\ state.capturedBlack = call.pre.capturedBlack
  /\ Len(played) < MaxMoves
\* ------------------------------------------------------ createInitialState
\* s is the empty position of the given size with Black to move
IsFreshGame(s, size) ==
  /\ DOMAIN s.board = 0..(size - 1)
  /\ \A y \in DOMAIN s.board :
       /\ DOMAIN s.board[y] = 0..(size - 1)
       /\ \A x \in DOMAIN s.board[y] : s.board[y][x] = Empty
  /\ s.boardSize = size
  /\ s.currentPlayer = Black
  /\ s.moveHistory = <<>>
  /\ s.capturedBlack = 0
  /\ s.capturedWhite = 0
  /\ s.lastMove = <<>>
  /\ s.isGameOver = FALSE

\* C14: createInitialState(size) is the size x size grid of empty cells with
\* boardSize = size, Black to move, no history, both counters 0, no last
\* move and the game not over; the game starts in that state.
C14_InitialState ==
  /\ ~call.made => IsFreshGame(state, BoardN)
  /\ \A size \in 1..(BoardN + 1) : IsFreshGame(createInitialState(size), size)

C14_Witness ==
  /\ ~call.made
  /\ state.boardSize = BoardN
  /\ history = <<>>
\* -------------------------------------------------------- getGroupLiberties
\* the boards getGroupLiberties is looked at on: the board held before any
\* call and, after a call on an in-bounds empty point, the board held then
\* and the working board of the call with the stone placed and nothing
\* removed yet, on which a group may stand without a liberty.  (After any
\* other call the board held is the board of the state the call was made in.)
BoardsSeen ==
  IF ~call.made THEN {state.board}
  ELSE IF Playable
       THEN {state.board, WithStone(call.pre.board, Target, call.pre.currentPlayer)}
       ELSE {}

StonesOf(board) == {c \in CellsOf(board) : At(board, c) # Empty}

\* C15: for every board and every stone on it, the group returned by
\* getGroupLiberties from that stone is the maximal set of stones of its
\* colour connected to it by 4-adjacency: it starts with the start cell,
\* lists no cell twice, and holds exactly the cells of that set.
C15_GroupIsMaximal ==
  \A b \in BoardsSeen : \A c \in StonesOf(b) :
    \A g \in {getGroupLiberties(b, c, At(b, c)).group} :
      /\ g[1] = c
      /\ Range(g) = GroupAt(b, c)
      /\ Len(g) = Cardinality(Range(g))

C15_Witness ==
  /\ Accepted
  /\ \E c \in StonesOf(state.board) :
       /\ Cardinality(GroupAt(state.board, c)) >= 3
       /\ \E a \in GroupAt(state.board, c), d \in GroupAt(state.board, c) :
            a.x # d.x /\ a.y # d.y
       /\ \E n \in Adj(state.board, c) : At(state.board, n) = Other(At(state.board, c))

\* C16: the liberty count returned equals the number of distinct empty
\* cells next to a stone of the returned group; an empty cell next to
\* several stones of the group counts once.
C16_LibertiesDistinct ==
  \A b \in BoardsSeen : \A c \in StonesOf(b) :
    \A g \in {getGroupLiberties(b, c, At(b, c))} :
      g.liberties = Cardinality(LibertySet(b, Range(g.group)))

C16_Witness ==
  /\ call.made
  /\ \E c \in StonesOf(state.board) :
       \E e \in LibertySet(state.board, GroupAt(state.board, c)) :
         Cardinality(Adj(state.board, e) \cap GroupAt(state.board, c)) >= 2
\* ------------------------------------------------------ calculateInfluence
\* the weight of a stone at Manhattan distance d
Weight(d) == CASE d = 0 -> 6 [] d = 1 -> 4 [] d = 2 -> 2 [] d = 3 -> 1 [] OTHER -> 0

Manhattan(a, b) ==
  (IF a.x > b.x THEN a.x - b.x ELSE b.x - a.x) + (IF a.y > b.y THEN a.y - b.y ELSE b.y - a.y)

Sign(colour) == IF colour = Black THEN 1 ELSE 0 - 1

\* the sum over the stones in S of sign x weight at cell c
RECURSIVE InfluenceSum(_, _, _)
InfluenceSum(board, S, c) ==
  IF S = {} THEN 0
  ELSE LET s == CHOOSE t \in S : TRUE
       IN Sign(At(board, s)) * Weight(Manhattan(s, c)) + InfluenceSum(board, S \ {s}, c)

\* C17: calculateInfluence returns a grid of the dimensions of the board in
\* which every cell holds the sum, over all stones, of sign x w(d), with
\* sign +1 for Black and -1 for White, d the Manhattan distance and
\* w = 6, 4, 2, 1 for d = 0..3 and 0 beyond.
C17_InfluenceIsWeightedSum ==
  \A b \in BoardsSeen : \A inf \in {calculateInfluence(b)} :
    /\ DOMAIN inf = DOMAIN b
    /\ \A y \in DOMAIN b :
         /\ DOMAIN inf[y] = DOMAIN b[y]
         /\ \A x \in DOMAIN b[y] :
              inf[y][x] = InfluenceSum(b, StonesOf(b), Coordinate(x, y))

C17_Witness ==
  /\ Accepted
  /\ \E a \in StonesOf(state.board), b \in StonesOf(state.board) :
       /\ At(state.board, a) = Black
       /\ At(state.board, b) = White
       /\ Manhattan(a, b) = 4
  /\ \E a \in StonesOf(state.board), b \in StonesOf(state.board) :
       a # b /\ At(state.board, a) = At(state.board, b)

\* -------------------------------------------------------- estimateScore
\* the totals of the two colours in half points: the cells whose weighted
\* sum is beyond 2 for the colour, the stones the colour has captured, and
\* 7.5 points more for White
Total(st, colour) ==
  2 * (Cardinality({c \in CellsOf(st.board) :
                      Sign(colour) * InfluenceSum(st.board, StonesOf(st.board), c) > 2})
       + CapturedOf(st, Other(colour)))
  + (IF colour = White THEN 15 ELSE 0)

\* C18: estimateScore returns leader Black exactly when Black total - White
\* total > 0 and White otherwise, and the margin |Black total - White total|,
\* the totals being cells with influence beyond 2 plus the stones the colour
\* has captured, plus 7.5 for White; on the initial board White leads by 7.5.
C18_ScoreTotals ==
  \A r \in {estimateScore(state)} :
    /\ r.leadColor = (IF Total(state, Black) - Total(state, White) > 0 THEN Black ELSE White)
    /\ r.diff = (IF Total(state, Black) > Total(state, White)
                 THEN Total(state, Black) - Total(state, White)
                 ELSE Total(state, White) - Total(state, Black))
    /\ IsFreshGame(state, BoardN) => r.leadColor = White /\ r.diff = 15

C18_Witness ==
  /\ Accepted
  /\ state.capturedWhite # state.capturedBlack
  /\ Total(state, Black) > 2 * CapturedOf(state, White)
  /\ Total(state, White) > 2 * CapturedOf(state, Black) + 15

\* C19: in every state reached from createInitialState by accepted moves
\* estimateScore returns Black or White as the leader and a margin that is
\* an odd number of half points, so strictly positive.
C19_NoTie ==
  \A r \in {estimateScore(state)} :
    /\ r.leadColor \in {Black, White}
    /\ r.diff > 0
    /\ r.diff % 2 = 1

C19_Witness ==
  /\ Accepted
  /\ estimateScore(state).diff = 1

\* --------------------------------------------------- getRandomValidMove
\* the position getRandomValidMove was given
Given == finder.given[1]

\* the coordinate returned, when one is
Returned == finder.result[1]

\* C20: a coordinate getRandomValidMove returns is in bounds, its cell is
\* empty in the state given, and playMove on that state at the coordinate is
\* accepted (the stone is placed on an empty cell and is no suicide),
\* whatever the random picks were.
C20_ReturnedMoveIsLegal ==
  (finder.pc = "done" /\ finder.result # <<>>) =>
     /\ Returned \in CellsOf(Given.board)
     /\ At(Given.board, Returned) = Empty
     /\ ~Given.isGameOver
     /\ ~SuicideAt(Given, Returned)
     /\ playMove(Given, Returned.x, Returned.y).success

\* a coordinate is returned by the scan, on a position where some empty
\* cell is a suicide
C20_Witness ==
  /\ finder.pc = "done"
  /\ finder.result # <<>>
  /\ finder.via = "scan"
  /\ \E c \in CellsOf(Given.board) :
       At(Given.board, c) = Empty /\ SuicideAt(Given, c)

\* the cells the player to move may play on, by the rules
LegalCells(st) ==
  IF st.isGameOver THEN {}
  ELSE {c \in CellsOf(st.board) : At(st.board, c) = Empty /\ ~SuicideAt(st, c)}

\* the passes through the loop bodies still to come, at most
PassesLeft ==
  IF finder.pc = "random"
  THEN (50 - finder.i) + Given.boardSize * Given.boardSize
  ELSE IF finder.pc = "scan"
  THEN (Given.boardSize - finder.y) * Given.boardSize - finder.x
  ELSE 0

FinderBounded ==
  /\ finder.i \in 0..50
  /\ finder.x \in 0..Given.boardSize
  /\ finder.y \in 0..Given.boardSize
  /\ finder.pc = "scan" => finder.i = 50

\* a pass through the body of a loop uses up one of the passes left
FinderProgress ==
  (finder.pc = "random" /\ finder.i' = finder.i + 1) \/ (finder.pc = "scan" /\ finder.x' = finder.x + 1)
    => PassesLeft' < PassesLeft

FinderAnswer ==
  finder.pc = "done" =>
    /\ LegalCells(Given) # {} => finder.result # <<>>
    /\ finder.result = <<>> <=> LegalCells(Given) = {}

\* C21: getRandomValidMove ends after at most 50 random attempts and one
\* pass over the N*N cells; it returns a coordinate when some empty cell is
\* legal for the player to move and null exactly when none is (a board with
\* no empty cell, a board whose empty cells are all suicide, a game that is
\* over).
C21_FinderTerminates ==
  /\ [](FinderBounded /\ FinderAnswer)
  /\ [][FinderProgress]_vars
  /\ <>(finder.pc = "done")

\* null is returned on a board whose empty cells are all suicide
C21_Witness ==
  /\ finder.pc = "done"
  /\ finder.result = <<>>
  /\ ~Given.isGameOver
  /\ \E c \in CellsOf(Given.board) : At(Given.board, c) = Empty

\* c comes before d in row-major order, or is d
RowMajorBefore(c, d) == c.y < d.y \/ (c.y = d.y /\ c.x <= d.x)

\* C22: when none of the 50 random picks landed on a legal cell, the result
\* is the first legal empty cell in row-major order (rows y ascending, x
\* ascending within a row), or null when there is none.
C22_ScanReturnsFirstLegal ==
  (finder.pc = "done" /\ finder.via = "scan") =>
     IF LegalCells(Given) = {} THEN finder.result = <<>>
     ELSE /\ finder.result # <<>>
          /\ Returned \in LegalCells(Given)
          /\ \A d \in LegalCells(Given) : RowMajorBefore(Returned, d)

\* the scan passes over an empty cell that is a suicide and returns a later
\* cell, not the last legal one
C22_Witness ==
  /\ finder.pc = "done"
  /\ finder.via = "scan"
  /\ finder.result # <<>>
  /\ \E c \in CellsOf(Given.board) :
       /\ At(Given.board, c) = Empty
       /\ c \notin LegalCells(Given)
       /\ RowMajorBefore(c, Returned)
  /\ \E d \in LegalCells(Given) : d # Returned

\* ------------------------------------------------------------ the game
\* the groups of the board that have no liberty
Smothered(board) ==
  {c \in StonesOf(board) : LibertySet(board, GroupAt(board, c)) = {}}

\* C23: every group on the board, of either colour, has at least one
\* liberty after an accepted move, as it had before: no group without a
\* liberty survives a move, be it an opponent group away from the placed
\* stone or a group of the mover.
C23_EveryGroupHasLiberty == Smothered(state.board) = {}

\* a capturing move on a board that holds an opponent group away from the
\* placed stone and a group of the mover that the stone did not join
C23_Witness ==
  /\ Accepted
  /\ Removed # {}
  /\ \E c \in StonesOf(state.board) :
       At(state.board, c) = state.currentPlayer /\ ~Touch(c, Target)
  /\ \E c \in StonesOf(state.board) :
       /\ At(state.board, c) = call.pre.currentPlayer
       /\ Target \notin GroupAt(state.board, c)

\* the stones of colour p on the board
StonesOn(board, p) == {c \in StonesOf(board) : At(board, c) = p}

\* C24: with a history of n moves, the Black stones on the board and
\* capturedBlack add up to ceil(n/2), the White stones on the board and
\* capturedWhite to floor(n/2): a stone played is on the board or counted
\* once as captured.
C24_StoneConservation ==
  LET n == Len(state.moveHistory)
  IN /\ Cardinality(StonesOn(state.board, Black)) + state.capturedBlack = (n + 1) \div 2
     /\ Cardinality(StonesOn(state.board, White)) + state.capturedWhite = n \div 2

C24_Witness ==
  /\ Accepted
  /\ Removed # {}
  /\ Len(state.moveHistory) = MaxMoves
  /\ state.capturedBlack + state.capturedWhite > 0

\* the colour that played entry k (counted from 0) of the move history: the
\* player to move in the state the k-th accepted call was given
PlayedBy(k) == history[k + 1].currentPlayer

\* C25: the player to move is Black exactly when the move history has even
\* length, entry k of the history (from 0) was played by Black exactly when
\* k is even, and a call that is not accepted leaves the player to move.
C25_TurnsAlternate ==
  /\ state.currentPlayer \in {Black, White}
  /\ state.currentPlayer = Black <=> Len(state.moveHistory) % 2 = 0
  /\ Len(history) = Len(state.moveHistory)
  /\ \A k \in 0..(Len(state.moveHistory) - 1) :
       /\ Len(history[k + 1].moveHistory) = k
       /\ PlayedBy(k) = Black <=> k % 2 = 0
  /\ (call.made /\ ~Accepted) => state.currentPlayer = call.pre.currentPlayer

C25_Witness ==
  /\ Rejected
  /\ Len(state.moveHistory) = MaxMoves - 1
  /\ state.currentPlayer = White

\* C26: the board after an accepted move differs from the board given only
\* at the target cell, Empty before and the mover's colour after, and at
\* the cells of the captured opponent groups, the opponent's colour before
\* and Empty after; no stone of the mover is removed, and boardSize, the
\* N x N shape of the grid and the game-over flag stay.
C26_AcceptedMoveFrame ==
  Accepted =>
    LET mover == call.pre.currentPlayer
        dead == DeadStones(call.pre, Target)
    IN /\ \A c \in CellsOf(call.pre.board) :
            IF c = Target
            THEN At(call.pre.board, c) = Empty /\ At(state.board, c) = mover
            ELSE IF c \in dead
            THEN At(call.pre.board, c) = Other(mover) /\ At(state.board, c) = Empty
            ELSE At(state.board, c) = At(call.pre.board, c)
       /\ \A c \in StonesOn(call.pre.board, mover) : At(state.board, c) = mover
       /\ state.boardSize = call.pre.boardSize
       /\ DOMAIN state.board = 0..(state.boardSize - 1)
       /\ \A y \in DOMAIN state.board : DOMAIN state.board[y] = 0..(state.boardSize - 1)
       /\ state.isGameOver = call.pre.isGameOver

\* a capture next to stones of both colours that stay
C26_Witness ==
  /\ Accepted
  /\ Removed # {}
  /\ \E c \in StonesOn(state.board, call.pre.currentPlayer) : c # Target
  /\ StonesOn(state.board, state.currentPlayer) # {}
  /\ Target.x # Target.y

\* the orders in which the elements of the sequence q can be gone through
Orders(q) ==
  {[i \in 1..Len(q) |-> q[f[i]]] :
     f \in {g \in [1..Len(q) -> 1..Len(q)] : \A i, j \in 1..Len(q) : g[i] = g[j] => i = j}}

\* the working board of the call once the stone is placed (lines 86-87)
Placed == setCell(cloneBoard(call.pre.board), call.x, call.y, call.pre.currentPlayer)

\* C27: for every state and move, going through the neighbours of the
\* placed stone in any order, each opponent group without a liberty removed
\* from the one working board as it is found, gives the same board and the
\* same tally of captured stones.
C27_CaptureOrderIrrelevant ==
  (Playable /\ \E n \in Adj(call.pre.board, Target) :
                  At(call.pre.board, n) = Other(call.pre.currentPlayer)) =>
    \A r \in {checkCaptures(Placed, getNeighbors(Target, call.pre.boardSize), 1,
                              Other(call.pre.currentPlayer), 0)} :
      /\ r.count = Cardinality(DeadStones(call.pre, Target))
      /\ \A ns \in Orders(getNeighbors(Target, call.pre.boardSize)) :
           \A o \in {checkCaptures(Placed, ns, 1, Other(call.pre.currentPlayer), 0)} :
             o.nb.rows = r.nb.rows /\ o.count = r.count

\* two opponent groups are captured next to a third that stays
C27_Witness ==
  /\ Accepted
  /\ Cardinality(DeadGroups(call.pre, Target)) >= 2
  /\ \E n \in Adj(state.board, Target) : At(state.board, n) = state.currentPlayer

\* C28: the game-over flag is false in every state reached from
\* createInitialState through playMove, in the states the caller kept as
\* well, and no call is turned down with "Game Over".
C28_GameNeverOver ==
  /\ ~state.isGameOver
  /\ \A i \in 1..Len(history) : ~history[i].isGameOver
  /\ call.made => (~call.pre.isGameOver /\ call.res.error # "Game Over")

\* a call is turned down, for another reason, after a capture
C28_Witness ==
  /\ Rejected
  /\ call.res.error = "Suicide move not allowed"
  /\ state.capturedBlack + state.capturedWhite > 0

\* the position after the player's move, which the AI turn works on
Pms == app.playerMovedState[1]

\* the AI turn ends at this step
TurnEnds == ai.isAiThinking /\ ~ai'.isAiThinking

\* after is before with a legal move of the player to move played
MoveApplied(before, after) ==
  \E c \in LegalCells(before) :
    /\ At(after.board, c) = before.currentPlayer
    /\ after.currentPlayer = Other(before.currentPlayer)
    /\ after.moveHistory = Append(before.moveHistory, c)

\* an AI turn has ended and no other is under way
TurnOver == ai.turns > 0 /\ ~ai.isAiThinking

\* what the turn left, by the legal moves the opponent had
TurnOutcome ==
  TurnOver =>
    \A legal \in {LegalCells(Pms)} :
      /\ legal # {} => (MoveApplied(Pms, state) /\ history[Len(history)] = Pms)
      /\ legal = {} => state = Pms
      /\ app.errorMsg = NoMoveMsg => legal = {}

\* C29: after an accepted player move, with every call of getAIMove
\* returning or throwing in the end, the AI turn ends with isAiThinking
\* false; when the opponent has a legal move on the position after the
\* player's move, an opponent move has been applied to the game state by
\* then (the AI's legal proposal, or the fallback's after the retries), and
\* the text for no move available is shown only, and then with the position
\* left as it was, when no legal move exists.
C29_AiTurnEndsWithMove ==
  /\ ai.isAiThinking ~> ~ai.isAiThinking
  /\ []TurnOutcome
  /\ [][TurnEnds =>
          /\ state = Pms
          /\ app'.errorMsg = NoMoveMsg <=> state' = state
          /\ (state' # state /\ ~ai'.validMoveFound) => app'.errorMsg = FallbackMsg]_vars

\* the turn has ended with the text for no move: the retries were used up
\* and the opponent had no legal move
C29_Witness ==
  /\ ~ai.isAiThinking
  /\ ai.turns > 0
  /\ ai.aiAttempts > 3
  /\ app.errorMsg = NoMoveMsg
  /\ state = Pms

\* C30: in one AI turn getAIMove is called at most MAX_ATTEMPTS (3) times
\* before the fallback; every reply that is no legal move (none, an
\* exception, an illegal coordinate) uses up one attempt, and an illegal
\* coordinate is in the list of invalid candidates passed to the next call.
C30_AttemptsAndCandidates ==
  /\ ai.asked <= 3
  /\ ai.isAiThinking => ai.aiAttempts = ai.asked - 1
  /\ (ai.isAiThinking /\ call.pre = Pms
        /\ Coordinate(call.x, call.y) \notin LegalCells(Pms)) =>
       (app.passed # <<>> /\ app.passed[Len(app.passed)] = Coordinate(call.x, call.y))

\* ---------------------------------------------- calculateInfluence, again
\* the board with the colours of the stones exchanged
Swapped(board) ==
  [y \in DOMAIN board |-> [x \in DOMAIN board[y] |->
     IF board[y][x] = Black THEN White
     ELSE IF board[y][x] = White THEN Black ELSE Empty]]

\* C37: calculateInfluence is antisymmetric under the exchange of colours
\* and depends on the stones only: the grid of the board with Black and
\* White exchanged is the negated grid, the empty board gives the grid of
\* zeros, and states of equal boards give equal grids whatever their
\* history and counters.
C37_InfluenceAntisymmetric ==
  /\ \A inf \in {calculateInfluence(state.board)},
        neg \in {calculateInfluence(Swapped(state.board))} :
       /\ \A y \in DOMAIN state.board : \A x \in DOMAIN state.board[y] :
            neg[y][x] = 0 - inf[y][x]
       /\ StonesOf(state.board) = {} =>
            \A y \in DOMAIN state.board : \A x \in DOMAIN state.board[y] : inf[y][x] = 0
       /\ \A s \in Range(history) :
            s.board = state.board => calculateInfluence(s.board) = inf

\* the board of two plies earlier is back, with stones of both colours, the
\* history longer and the counters higher
C37_Witness ==
  /\ Len(history) = 2
  /\ state.board = history[1].board
  /\ state.moveHistory # history[1].moveHistory
  /\ state.capturedBlack # history[1].capturedBlack
  /\ \E a \in StonesOf(state.board), b \in StonesOf(state.board) :
       At(state.board, a) = Black /\ At(state.board, b) = White

\* ------------------------------------------------- the calls of the service
\* C34: whatever the service answers, getAIMove returns null or a
\* coordinate with 0 <= x < 19 and 0 <= y < 19, so that every coordinate
\* given to playMove for the AI is on the board.
C34_AIMoveInBounds ==
  (svc.fn = "getAIMove" /\ svc.pc = "done" /\ svc.result[1].kind = "resolved") =>
    \/ svc.result[1].value.move = <<>>
    \/ /\ svc.result[1].value.move[1].x \in 0..18
       /\ svc.result[1].value.move[1].y \in 0..18

\* callWithRetry is at work or has ended
Retrying == svc.fn = "analyzeMove"

\* C35: callWithRetry(fn) with retries = 2 invokes fn at most 3 times, one
\* after another; it returns the value of the first invocation that
\* succeeds and does not invoke fn again, and it throws, the error of the
\* last invocation, only after 3 failures in a row.
C35_RetryThreeTimes ==
  /\ [](Retrying =>
          /\ svc.calls <= 3
          /\ svc.running <= 1
          /\ svc.running = 1 => svc.calls = Len(svc.failed) + 1
          /\ svc.settled # <<>> =>
               /\ svc.running = 0
               /\ IF svc.settled[1].kind = "resolved"
                  THEN /\ svc.calls = Len(svc.failed) + 1
                       /\ svc.settled[1].value = svc.response[1]
                  ELSE /\ svc.calls = 3 /\ Len(svc.failed) = 3
                       /\ svc.settled[1].value = svc.failed[3])
  /\ [][Retrying =>
          /\ svc'.calls > svc.calls =>
               (svc.running = 0 /\ svc.settled = <<>> /\ Len(svc.failed) = svc.calls)
          /\ Len(svc'.failed) = 3 => svc'.settled # <<>>]_vars

\* three failures, the last with another error than the one before
C35_Witness ==
  /\ Retrying
  /\ svc.calls = 3
  /\ svc.failed = <<"e1", "e1", "e2">>
  /\ svc.settled = <<threw("e2")>>

\* the fields a MoveAnalysis must have (types.ts:20-29)
Required ==
  {"evaluation", "score", "title", "detailedAnalysis", "strategicContext",
   "variations", "territoryChange"}

\* the analysis of a reply nothing of which parsed
Defaults ==
  [evaluation |-> Str(<<"normal">>), score |-> Num(70), title |-> Str(<<"...">>),
   detailedAnalysis |-> Str(<<"detailed analysis not parsed">>),
   strategicContext |-> Str(<<>>), josekiOrProverbs |-> Arr(<<>>),
   territoryChange |-> Num(0), variations |-> Arr(<<>>)]

\* analyzeMove has settled as the state says
AnalysisSettled ==
  svc.fn = "analyzeMove" /\ svc.result # <<>> =>
    /\ svc.result[1].kind = "resolved"
    /\ \A name \in Required : svc.result[1].value.analysis[name].t # "undefined"
    /\ Len(svc.failed) = 3 =>
         /\ svc.result[1].value.usage = 0
         /\ svc.result[1].value.analysis.title = Str(<<"analysis interrupted">>)
         /\ svc.result[1].value.analysis.score = Num(75)
    /\ (svc.response # <<>> /\ svc.response[1].text # <<>>
          /\ (svc.response[1].text[1].form = "garbage"
                \/ svc.response[1].text[1].json = JNull)) =>
         svc.result[1].value.analysis = Defaults

\* C36: analyzeMove never rejects: when the call of the service fails on
\* every retry, or its reply does not parse, it resolves with a complete
\* MoveAnalysis all the same (the fallback analysis with usage 0 after the
\* failures, the default values of the fields after a reply that did not
\* parse), so the then-handler of makeMove runs and isAnalyzing is false
\* again in the end.
C36_AnalyzeMoveResolves ==
  /\ []AnalysisSettled
  /\ app.isAnalyzing ~> ~app.isAnalyzing
  /\ (app.analyses # <<>>) ~> (app.analyses = <<>> /\ app.analysisHistory # <<>>)

\* the handler has run on the fallback analysis, after three failures
C36_Witness ==
  /\ svc.fn = "analyzeMove" /\ svc.pc = "done"
  /\ Len(svc.failed) = 3
  /\ ~app.isAnalyzing
  /\ Len(app.analysisHistory) = 1
  /\ app.analysisHistory[1].analysis.score = Num(75)


\* the empty position with Black to move and nothing to undo
Fresh == state = createInitialState(BoardN) /\ history = <<>>

\* a click of the user is accepted at this step
ClickAccepted == ~ai.isAiThinking /\ ai'.isAiThinking

\* C31: handleRestart resets the game: once it has run, gameState is the
\* empty initial position with Black to move and the undo history is empty,
\* and both stay so until the user's next accepted click, under every
\* interleaving, an AI move asked for before the restart and delivered
\* after it included.
C31_RestartResets ==
  [][/\ handleRestart => Fresh'
     /\ (Fresh /\ ~ClickAccepted) => Fresh']_vars

\* C32: handleUndo does nothing while the AI is thinking or when the undo
\* history is empty; otherwise it restores an earlier snapshot of the game
\* such that afterwards it is Black's turn and the undo history is as long
\* as the move history of the state restored, a player move and its answer
\* being undone together.
C32_UndoRestores ==
  [][handleUndo =>
       IF ai.isAiThinking \/ history = <<>>
       THEN UNCHANGED vars
       ELSE /\ \E i \in 1..Len(history) : state' = history[i]
            /\ state'.currentPlayer = Black
            /\ Len(history') = Len(state'.moveHistory)]_vars

\* C33: in every reachable state of the application each entry of
\* analysisHistory refers to a move of the current game: its moveNumber is
\* at most the length of the move history of gameState, under every
\* interleaving of clicks, handleUndo, handleRestart and the completion of
\* analyzeMove.
C33_AnalysesOfCurrentGame ==
  \A i \in 1..Len(app.analysisHistory) :
    app.analysisHistory[i].moveNumber <= Len(state.moveHistory)

====
